---- MODULE Spec2Model ----
(***************************************************************************)
(* fawm: a small X11 window manager.  The model covers the window manager  *)
(* of src/fawm/main.c: the Frame registry (all_frames, frames_z_order),    *)
(* the frame lifecycle (reparent, close, destroy), the grasp protocol      *)
(* (button press, motion, button release) and the part of the X server     *)
(* the handlers observe (window existence, map state, geometry, pointer    *)
(* grab).  Two further parts follow the earlier version of the window      *)
(* manager (src/src/main.c) and the pipe between __fawm_config__ and       *)
(* read_config.                                                            *)
(***************************************************************************)
EXTENDS Integers, Sequences, FiniteSets, TLC

(***************************************************************************)
(* Bounds of the model.                                                    *)
(***************************************************************************)
\* client top-level windows that may ever be created
NClients == 3
\* Frame objects the heap can hold at a time (alloc_memory aborts beyond)
MaxFrames == 3
\* frame windows XCreateSimpleWindow hands out in one run
MaxFrameWindows == 4
\* entries an array is followed to (ensure_array_size grows without limit)
MaxEntries == 4
\* title_height is the height of the title font, known at run time only; the
\* font's ascent + descent (compute_font_height) is taken to be the same
TitleHeight == 10
\* the screen, the widest menu caption and the clock text, in pixels
RootWidth == 200
RootHeight == 150
CaptionWidth == 24
ClockTextWidth == 136
\* the geometry a client window has when it is framed
ClientX == 20
ClientY == 20
ClientWidth == 100
ClientHeight == 80
\* frames are followed while they stay within this distance of that geometry
MaxDrift == 5
MaxQueue == 3
\* the config tool's output: bytes are 0..(ByteBase - 1), a size_t has
\* SizeofSizeT of them, and streams of up to MaxStream bytes are followed
ByteBase == 3
SizeofSizeT == 2
MaxStream == 7
\* commands launched from the menu
MaxCommands == 2

(***************************************************************************)
(* Program constants (setup_window_manager).                               *)
(***************************************************************************)
BorderSize == 1
ClientBorderSize == 1
FrameSize == 4
ResizableCornerSize == 32
PaddingSize == 4
PopupMargin == 8

(***************************************************************************)
(* Windows.  0 is None; clients are 1..NClients; frame windows are         *)
(* FirstFrameWindow, FirstFrameWindow+1, ...; the root, the popup menu and *)
(* the taskbar are three further ids.                                      *)
(***************************************************************************)
NoWindow == 0
Root == 90
PopupWindow == 91
TaskbarWindow == 92
FirstFrameWindow == 11
\* what memset(frame, 0xfd, ...) leaves in the Window fields of a freed Frame
Junk == -1

Clients == 1..NClients
FrameWindows == FirstFrameWindow..(FirstFrameWindow + MaxFrameWindows - 1)

\* Frame* values: 0 is NULL, the others are heap chunks
NULL == 0
Slots == 1..MaxFrames

GP_NONE == "GP_NONE"
GP_TITLE_BAR == "GP_TITLE_BAR"
GP_NORTH == "GP_NORTH"
GP_NORTH_EAST == "GP_NORTH_EAST"
GP_EAST == "GP_EAST"
GP_SOUTH_EAST == "GP_SOUTH_EAST"
GP_SOUTH == "GP_SOUTH"
GP_SOUTH_WEST == "GP_SOUTH_WEST"
GP_WEST == "GP_WEST"
GP_NORTH_WEST == "GP_NORTH_WEST"

FOCUS_NONE == "FOCUS_NONE"
FOCUS_MINIMIZE == "FOCUS_MINIMIZE"
FOCUS_MAXIMIZE == "FOCUS_MAXIMIZE"
FOCUS_CLOSE == "FOCUS_CLOSE"

Button1 == 1
\* a button that is not Button1
Button3 == 3

(***************************************************************************)
(* Arrays of Frame pointers.  An Array is modelled by the sequence         *)
(* items[0..size); ensure_array_size only grows the capacity.              *)
(***************************************************************************)
Range(s) == {s[i] : i \in 1..Len(s)}

\* index of the first entry equal to f, Len(a)+1 when there is none
\* (the loop of remove_from_array)
IndexOfFrame(a, f) ==
    IF \E i \in 1..Len(a) : a[i] = f
    THEN CHOOSE i \in 1..Len(a) : a[i] = f /\ \A j \in 1..(i - 1) : a[j] # f
    ELSE Len(a) + 1

\* memcpy(&items[i], &items[i + 1], rest) copying from the low addresses up:
\* the entries after i move down by one
CopyForward(a, i) == [k \in 1..(Len(a) - 1) |-> IF k < i THEN a[k] ELSE a[k + 1]]

\* the same memcpy copying from the high addresses down: every entry from i
\* on receives the last one
CopyBackward(a, i) == [k \in 1..(Len(a) - 1) |-> IF k < i THEN a[k] ELSE a[Len(a)]]

\* memcpy of rest entries from items[i + 1] to items[i]: the ranges overlap as
\* soon as rest >= 2, which memcpy leaves undefined; both copy orders are
\* results a C library produces
MemcpyDown(a, i) ==
    IF Len(a) - i >= 2
    THEN {CopyForward(a, i), CopyBackward(a, i)}
    ELSE {CopyForward(a, i)}

\* remove_from_array: the set of arrays the call may leave
remove_from_array(a, f) ==
    LET i == IndexOfFrame(a, f)
    IN  IF i = Len(a) + 1 THEN {a} ELSE MemcpyDown(a, i)

prepend_to_array(a, f) == <<f>> \o a

append_to_array(a, f) == Append(a, f)

(***************************************************************************)
(* Geometry and hit testing.                                               *)
(***************************************************************************)
Abs(n) == IF n < 0 THEN -n ELSE n

\* a < b for two ints converted to unsigned int (detect_frame_status compares
\* int x with unsigned width): a negative int becomes a value above every
\* non-negative one
ULess(a, b) ==
    IF (a >= 0) = (b >= 0) THEN a < b ELSE a >= 0

\* C's n / d for d # 0: the quotient truncated toward zero
CDiv(n, d) ==
    IF (n >= 0) = (d > 0)
    THEN Abs(n) \div Abs(d)
    ELSE -(Abs(n) \div Abs(d))

\* floor_int, for inc # 0 (inc = 0 is a division by zero, see Resize)
floor_int(n, inc) == CDiv(n, inc) * inc

\* compute_frame_width as it was before the child got a border
compute_frame_width_without_borders == 2 * FrameSize

compute_frame_width == 2 * (FrameSize + ClientBorderSize)

compute_frame_height == TitleHeight + 3 * FrameSize + 2 * ClientBorderSize

is_range_inside_closed(range_begin, range_size, n) ==
    (range_begin <= n) /\ (n <= range_begin + range_size)

is_range_inside(range_begin, range_size, n) ==
    (range_begin <= n) /\ (n < range_begin + range_size)

is_region_inside(region_x, region_y, region_width, region_height, x, y) ==
    /\ is_range_inside(region_x, region_width, x)
    /\ is_range_inside(region_y, region_height, y)

\* detect_frame_position, given the width and height get_geometry returns;
\* the first region that holds the point decides
detect_frame_position(width, height, x, y) ==
    LET frame_size == FrameSize
        corner_size == ResizableCornerSize
        virt_corner_size == corner_size - frame_size
        middle_width == width - 2 * corner_size
        east_corner_x == width - corner_size
        virt_east_x == width - frame_size
        middle_height == height - 2 * corner_size
        bottom_y == height - frame_size
    IN  IF is_region_inside(0, frame_size, frame_size, virt_corner_size, x, y)
            THEN GP_NORTH_WEST
        ELSE IF is_region_inside(0, 0, corner_size, frame_size, x, y)
            THEN GP_NORTH_WEST
        ELSE IF is_region_inside(corner_size, 0, middle_width, frame_size, x, y)
            THEN GP_NORTH
        ELSE IF is_region_inside(east_corner_x, 0, corner_size, frame_size, x, y)
            THEN GP_NORTH_EAST
        ELSE IF is_region_inside(virt_east_x, frame_size, frame_size, virt_corner_size, x, y)
            THEN GP_NORTH_EAST
        ELSE IF is_region_inside(virt_east_x, corner_size, frame_size, middle_height, x, y)
            THEN GP_EAST
        ELSE IF is_region_inside(virt_east_x, height - corner_size, frame_size, virt_corner_size, x, y)
            THEN GP_SOUTH_EAST
        ELSE IF is_region_inside(east_corner_x, bottom_y, corner_size, frame_size, x, y)
            THEN GP_SOUTH_EAST
        ELSE IF is_region_inside(corner_size, height - frame_size, middle_width, frame_size, x, y)
            THEN GP_SOUTH
        ELSE IF is_region_inside(0, bottom_y, corner_size, frame_size, x, y)
            THEN GP_SOUTH_WEST
        ELSE IF is_region_inside(0, height - corner_size, frame_size, corner_size - frame_size, x, y)
            THEN GP_SOUTH_WEST
        ELSE IF is_region_inside(0, corner_size, frame_size, middle_height, x, y)
            THEN GP_WEST
        ELSE IF is_region_inside(0, 0, width, height, x, y)
            THEN GP_TITLE_BAR
        ELSE GP_NONE

\* detect_frame_status, given the width get_geometry returns; the three
\* comparisons with x are made in unsigned arithmetic
detect_frame_status(width, x, y) ==
    LET frame_size == FrameSize
        size == TitleHeight
    IN  IF (y < frame_size) \/ (frame_size + size < y) THEN FOCUS_NONE
        ELSE IF ULess(x, width - (3 * size + frame_size)) THEN FOCUS_NONE
        ELSE IF ULess(x, width - (2 * size + frame_size)) THEN FOCUS_MINIMIZE
        ELSE IF ULess(x, width - (size + frame_size)) THEN FOCUS_MAXIMIZE
        ELSE FOCUS_CLOSE


(***************************************************************************)
(* State.                                                                  *)
(***************************************************************************)
VARIABLES
    pc,                 \* "startup", "loop", "exited", "diverged", "crashed";
                        \* "do_fork" and "waitpid" inside execute
    running,            \* wm->running
    heap,               \* the Frame objects, by heap chunk
    allocated,          \* the chunks malloc has handed out and free has not taken back
    all_frames,         \* wm->all_frames
    frames_z_order,     \* wm->frames_z_order
    grasped_position,   \* wm->grasped_position
    grasped_frame,      \* wm->grasped_frame
    grasped_x,
    grasped_y,
    grasped_width,
    grasped_height,
    popup_menu,         \* wm->popup_menu and the popup window's place
    clock_x,            \* wm->taskbar.clock_x
    xframe,             \* X server: the frame windows
    xclient,            \* X server: the clients' top-level windows
    next_window,        \* X server: frame windows created so far
    buttons,            \* pointer: the buttons held down
    grab,               \* pointer: the window of the active grab, or NoWindow
    last,               \* the event handled last and the requests it made
    drag,               \* the user's drag: the frame window button 1 went down on
    watch,              \* the handlers whose events last keeps in full
    queue,              \* the events that wait to be read, oldest first
    drained,            \* the events get_last_event took out of the queue last
    config,             \* main before wm_main: read_config and the tool's output
    procs,              \* the processes execute has forked
    old,                \* the earlier version of the window manager (src/src/main.c)
    pipe                \* __fawm_config__'s write_file and the pipe it writes to

wmvars == <<pc, running, heap, allocated, all_frames, frames_z_order,
            grasped_position, grasped_frame, grasped_x, grasped_y,
            grasped_width, grasped_height, popup_menu, clock_x>>

xvars == <<xframe, xclient, next_window, buttons, grab>>

graspvars == <<grasped_position, grasped_frame, grasped_x, grasped_y,
               grasped_width, grasped_height>>

\* the process outside its X session
osvars == <<config, procs, old, pipe>>

vars == <<wmvars, xvars, last, drag, watch, queue, drained, osvars>>

\* what an action that handles an event as it arrives leaves alone
history == <<drag, watch, queue, drained, osvars>>

\* a chunk that holds no Frame: free_frame fills it with 0xfd before free
FreedFrame ==
    [window |-> Junk, child |-> Junk, wm_delete_window |-> TRUE, title |-> Junk,
     width_inc |-> Junk, height_inc |-> Junk, status |-> "junk"]

NoFrameWindow == [exists |-> FALSE, mapped |-> FALSE, x |-> 0, y |-> 0, width |-> 0, height |-> 0]

UnbornClient ==
    [state |-> "unborn", parent |-> Root, mapped |-> FALSE, x |-> 0, y |-> 0,
     width |-> 0, height |-> 0, border_width |-> 0]

NoEvent == [op |-> "none", w |-> NoWindow, reqs |-> <<>>]

\* what last holds after event e: e itself when its handler is watched
Note(e) == IF e.op \in watch THEN e ELSE NoEvent

(***************************************************************************)
(* Lookup in the registry.                                                 *)
(***************************************************************************)
is_child(hp, f, w) == hp[f].child = w

is_frame(hp, f, w) == hp[f].window = w

\* search_in_array over the Frames of heap hp: the first entry that
\* satisfies pred (is_child or is_frame), NULL when none does
search_in_array(hp, a, pred, w) ==
    LET holds(f) == IF pred = "is_child" THEN is_child(hp, f, w) ELSE is_frame(hp, f, w)
    IN  IF \E i \in 1..Len(a) : holds(a[i])
        THEN a[CHOOSE i \in 1..Len(a) : holds(a[i]) /\ \A j \in 1..(i - 1) : ~holds(a[j])]
        ELSE NULL

search_frame_of_child(w) == search_in_array(heap, all_frames, "is_child", w)

search_frame(w) == search_in_array(heap, all_frames, "is_frame", w)

\* move_frame_to_z_order_head: the arrays remove + prepend may leave
move_frame_to_z_order_head(z, frame) ==
    {prepend_to_array(r, frame) : r \in remove_from_array(z, frame)}

(***************************************************************************)
(* The X server's side of the requests.  A request that names a window     *)
(* that does not exist raises an X error, which error_handler logs; the    *)
(* request changes nothing.                                                *)
(***************************************************************************)
FrameExists(xf, w) == w \in FrameWindows /\ xf[w].exists

\* width and height travel as CARD16; 0 is a BadValue error
Card16(n) == n % 65536

XMapWindowF(xf, w) ==
    IF FrameExists(xf, w) THEN [xf EXCEPT ![w].mapped = TRUE] ELSE xf

XUnmapWindowF(xf, w) ==
    IF FrameExists(xf, w) THEN [xf EXCEPT ![w].mapped = FALSE] ELSE xf

XMapWindowC(xc, w) ==
    IF w \in Clients /\ xc[w].state = "alive" THEN [xc EXCEPT ![w].mapped = TRUE] ELSE xc

XMoveWindowF(xf, w, x, y) ==
    IF FrameExists(xf, w) THEN [xf EXCEPT ![w].x = x, ![w].y = y] ELSE xf

XMoveResizeWindowF(xf, w, x, y, width, height) ==
    IF FrameExists(xf, w) /\ Card16(width) # 0 /\ Card16(height) # 0
    THEN [xf EXCEPT ![w].x = x, ![w].y = y,
                    ![w].width = Card16(width), ![w].height = Card16(height)]
    ELSE xf

XResizeWindowC(xc, w, width, height) ==
    IF w \in Clients /\ xc[w].state = "alive" /\ Card16(width) # 0 /\ Card16(height) # 0
    THEN [xc EXCEPT ![w].width = Card16(width), ![w].height = Card16(height)]
    ELSE xc

\* XDestroyWindow of a frame window: the window and the windows inside it go
XDestroyWindowF(xf, w) ==
    IF FrameExists(xf, w) THEN [xf EXCEPT ![w].exists = FALSE, ![w].mapped = FALSE] ELSE xf

\* the pointer grab ends when its window stops being viewable
GrabAfter(xf, g) ==
    IF g \in FrameWindows /\ ~(xf[g].exists /\ xf[g].mapped) THEN NoWindow ELSE g


(***************************************************************************)
(* Frame lifecycle.                                                        *)
(***************************************************************************)
SetMin(S) == CHOOSE m \in S : \A n \in S : m <= n

\* alloc_frame: malloc returns a free chunk.  Free chunks that no array entry
\* points to are interchangeable, the lowest stands for them; a free chunk an
\* array entry still points to is a result of its own.
alloc_frame ==
    LET free == Slots \ allocated
        referenced == Range(all_frames) \cup Range(frames_z_order)
        fresh == free \ referenced
    IN  (free \cap referenced) \cup (IF fresh = {} THEN {} ELSE {SetMin(fresh)})

\* insert_frame
insert_frame(reg, frame) ==
    [all_frames |-> append_to_array(reg.all_frames, frame),
     frames_z_order |-> prepend_to_array(reg.frames_z_order, frame)]

\* reparent_window(w) for a window whose attributes can be read; h is what the
\* X server answers: the window's geometry (XGetWindowAttributes), its name,
\* its WM_PROTOCOLS and the increments get_normal_hints ends up with.
\* The result is the set of states the call may leave (create_frame,
\* insert_frame, XReparentWindow, XMapWindow twice, focus).
reparent_window(w, h) ==
    LET win == FirstFrameWindow + next_window
        width == h.width + compute_frame_width
        height == h.height + compute_frame_height
    IN  UNION { { [frame |-> s,
           heap |-> [heap EXCEPT ![s] =
                        [window |-> win, child |-> w,
                         wm_delete_window |-> h.wm_delete_window,
                         title |-> h.title,
                         width_inc |-> h.width_inc, height_inc |-> h.height_inc,
                         status |-> FOCUS_NONE]],
           allocated |-> allocated \cup {s},
           all_frames |-> insert_frame([all_frames |-> all_frames, frames_z_order |-> frames_z_order], s).all_frames,
           frames_z_order |-> z,
           xframe |-> [xframe EXCEPT ![win] =
                        [exists |-> TRUE, mapped |-> TRUE, x |-> h.x, y |-> h.y,
                         width |-> width, height |-> height]],
           xclient |-> [xclient EXCEPT ![w] =
                        [state |-> "alive", parent |-> win, mapped |-> TRUE,
                         x |-> FrameSize, y |-> 2 * FrameSize + TitleHeight,
                         width |-> h.width, height |-> h.height,
                         border_width |-> ClientBorderSize]],
           next_window |-> next_window + 1,
           reqs |-> << <<"XCreateSimpleWindow", win>>, <<"XReparentWindow", w>>,
                       <<"XMapWindow", win>>, <<"XMapWindow", w>>,
                       <<"XSetInputFocus", w>> >> ]
          : z \in move_frame_to_z_order_head(
                    insert_frame([all_frames |-> all_frames, frames_z_order |-> frames_z_order], s).frames_z_order, s) }
          : s \in alloc_frame }

\* the bounds of the model: a window id and a heap chunk are left
CanCreateFrame == next_window < MaxFrameWindows /\ alloc_frame # {}

\* map_frame_of_child(w) when search_frame_of_child finds frame:
\* XMapWindow(frame), XMapWindow(child), XRaiseWindow(frame), focus(frame)
map_found_reqs(hp, frame) ==
    << <<"XMapWindow", hp[frame].window>>, <<"XMapWindow", hp[frame].child>>,
       <<"XRaiseWindow", hp[frame].window>>, <<"XSetInputFocus", hp[frame].child>> >>

\* process_map_request -> map_frame_of_child(w)
process_map_request(w, h) ==
    /\ pc = "loop" /\ running
    /\ LET frame == search_frame_of_child(w)
       IN  IF frame # NULL
           THEN \E z \in move_frame_to_z_order_head(frames_z_order, frame) :
                  /\ frames_z_order' = z
                  /\ xframe' = XMapWindowF(xframe, heap[frame].window)
                  /\ xclient' = XMapWindowC(xclient, heap[frame].child)
                  /\ last' = Note([op |-> "MapRequest", w |-> w, reqs |-> map_found_reqs(heap, frame)])
                  /\ UNCHANGED <<pc, running, heap, allocated, all_frames,
                                 grasped_position, grasped_frame, grasped_x, grasped_y,
                                 grasped_width, grasped_height, popup_menu, clock_x,
                                 next_window, buttons, grab>>
           ELSE IF xclient[w].state = "dead"
           THEN \* XGetWindowAttributes fails, reparent_window returns at once and
                \* map_frame_of_child calls itself with nothing changed, for ever
                /\ pc' = "diverged"
                /\ last' = Note([op |-> "MapRequest", w |-> w, reqs |-> <<>>])
                /\ UNCHANGED <<running, heap, allocated, all_frames, frames_z_order,
                               grasped_position, grasped_frame, grasped_x, grasped_y,
                               grasped_width, grasped_height, popup_menu, clock_x, xvars>>
           ELSE /\ CanCreateFrame
                /\ \E r \in reparent_window(w, h) :
                     LET again == search_in_array(r.heap, r.all_frames, "is_child", w)
                     IN  \E z \in move_frame_to_z_order_head(r.frames_z_order, again) :
                           /\ heap' = r.heap
                           /\ allocated' = r.allocated
                           /\ all_frames' = r.all_frames
                           /\ frames_z_order' = z
                           /\ xframe' = XMapWindowF(r.xframe, r.heap[again].window)
                           /\ xclient' = XMapWindowC(r.xclient, r.heap[again].child)
                           /\ next_window' = r.next_window
                           /\ last' = Note([op |-> "MapRequest", w |-> w,
                                       reqs |-> r.reqs \o map_found_reqs(r.heap, again)])
                /\ UNCHANGED <<pc, running, grasped_position, grasped_frame, grasped_x,
                               grasped_y, grasped_width, grasped_height, popup_menu,
                               clock_x, buttons, grab>>


\* focus_top_frame: the z-orders focus(frames_z_order.items[0]) may leave
focus_top_frame(z) ==
    IF Len(z) = 0 THEN {z} ELSE move_frame_to_z_order_head(z, z[1])

focus_top_reqs(hp, z) ==
    IF Len(z) = 0 THEN <<>> ELSE << <<"XSetInputFocus", hp[z[1]].child>> >>

\* free_frame that returns before it has removed and freed anything
free_frame_keeps_frame(frame) ==
    {[all_frames |-> all_frames, frames_z_order |-> frames_z_order,
      heap |-> heap, allocated |-> allocated]}

\* free_frame: the Frame leaves both arrays, its chunk is filled with 0xfd
\* and freed; the set of states the call may leave
free_frame(frame) ==
    {[all_frames |-> a, frames_z_order |-> r,
      heap |-> [heap EXCEPT ![frame] = FreedFrame],
      allocated |-> allocated \ {frame}]
        : a \in remove_from_array(all_frames, frame),
          r \in remove_from_array(frames_z_order, frame)}

\* process_destroy_notify -> destroy_frame, focus_top_frame
process_destroy_notify(w) ==
    /\ pc = "loop" /\ running
    /\ xclient[w].state = "dead"
    /\ LET frame == search_frame_of_child(w)
       IN  IF frame = NULL
           THEN /\ last' = Note([op |-> "DestroyNotify", w |-> w, reqs |-> <<>>])
                /\ UNCHANGED <<wmvars, xvars>>
           ELSE \E d \in free_frame(frame) :
                  \E z \in focus_top_frame(d.frames_z_order) :
                    /\ all_frames' = d.all_frames
                    /\ frames_z_order' = z
                    /\ heap' = d.heap
                    /\ allocated' = d.allocated
                    /\ xframe' = XDestroyWindowF(xframe, heap[frame].window)
                    /\ grab' = GrabAfter(xframe', grab)
                    /\ last' = Note([op |-> "DestroyNotify", w |-> w,
                                reqs |-> << <<"free", frame>>,
                                            <<"XDestroyWindow", heap[frame].window>> >>
                                         \o focus_top_reqs(heap', d.frames_z_order)])
                    /\ UNCHANGED <<pc, running, grasped_position, grasped_frame,
                                   grasped_x, grasped_y, grasped_width, grasped_height,
                                   popup_menu, clock_x, xclient, next_window, buttons>>

\* unmap_frame: the frame leaves frames_z_order only
unmap_frame(op, w, frame) ==
    \E r \in remove_from_array(frames_z_order, frame) :
      \E z \in focus_top_frame(r) :
        /\ frames_z_order' = z
        /\ xframe' = XUnmapWindowF(xframe, heap[frame].window)
        /\ last' = Note([op |-> op, w |-> w,
                    reqs |-> << <<"XUnmapWindow", heap[frame].window>> >>
                             \o focus_top_reqs(heap, r)])

\* process_unmap_notify; the window is one a client has unmapped (withdrawn)
\* or one that has been destroyed while mapped
process_unmap_notify(w) ==
    /\ pc = "loop" /\ running
    /\ xclient[w].state # "unborn"
    /\ xclient[w].parent # Root
    /\ LET frame == search_frame_of_child(w)
       IN  IF frame = NULL
           THEN /\ last' = Note([op |-> "UnmapNotify", w |-> w, reqs |-> <<>>])
                /\ UNCHANGED <<wmvars, xvars>>
           ELSE /\ unmap_frame("UnmapNotify", w, frame)
                /\ grab' = GrabAfter(xframe', grab)
                /\ UNCHANGED <<pc, running, heap, allocated, all_frames,
                               grasped_position, grasped_frame, grasped_x, grasped_y,
                               grasped_width, grasped_height, popup_menu, clock_x,
                               xclient, next_window, buttons>>

(***************************************************************************)
(* Configure requests.                                                     *)
(***************************************************************************)
\* XConfigureWindow of a frame window with the one value named by bit
XConfigureWindowF(xf, w, bit, value) ==
    IF ~FrameExists(xf, w) THEN xf
    ELSE CASE bit = "CWX" -> [xf EXCEPT ![w].x = value]
           [] bit = "CWY" -> [xf EXCEPT ![w].y = value]
           [] bit = "CWWidth" ->
                IF Card16(value) # 0 THEN [xf EXCEPT ![w].width = Card16(value)] ELSE xf
           [] bit = "CWHeight" ->
                IF Card16(value) # 0 THEN [xf EXCEPT ![w].height = Card16(value)] ELSE xf

\* XConfigureWindow of a client's window with the one value named by bit
XConfigureWindowC(xc, w, bit, value) ==
    IF ~(w \in Clients /\ xc[w].state = "alive") THEN xc
    ELSE CASE bit = "CWX" -> [xc EXCEPT ![w].x = value]
           [] bit = "CWY" -> [xc EXCEPT ![w].y = value]
           [] bit = "CWWidth" ->
                IF Card16(value) # 0 THEN [xc EXCEPT ![w].width = Card16(value)] ELSE xc
           [] bit = "CWHeight" ->
                IF Card16(value) # 0 THEN [xc EXCEPT ![w].height = Card16(value)] ELSE xc
           [] bit = "CWBorderWidth" -> [xc EXCEPT ![w].border_width = Card16(value)]

\* configure_frame: the frame windows after the requests for parent
configure_frame_parent(xf, parent, value_mask, e) ==
    LET x == IF "CWX" \in value_mask
             THEN XConfigureWindowF(xf, parent, "CWX", e.x - FrameSize) ELSE xf
        y == IF "CWY" \in value_mask
             THEN XConfigureWindowF(x, parent, "CWY", e.y - (FrameSize + TitleHeight)) ELSE x
        width == IF "CWWidth" \in value_mask
                 THEN XConfigureWindowF(y, parent, "CWWidth", e.width + compute_frame_width)
                 ELSE y
    IN  IF "CWHeight" \in value_mask
        THEN XConfigureWindowF(width, parent, "CWHeight", e.height + compute_frame_height)
        ELSE width

\* configure_frame: the client windows after the requests for w
configure_frame_child(xc, w, value_mask, e) ==
    LET width == IF "CWWidth" \in value_mask
                 THEN XConfigureWindowC(xc, w, "CWWidth", e.width) ELSE xc
    IN  IF "CWHeight" \in value_mask
        THEN XConfigureWindowC(width, w, "CWHeight", e.height) ELSE width

\* process_configure_request for a window without a Frame: the request is
\* carried out as it was made (the stacking order is not modelled)
configure_unframed(xc, w, value_mask, e) ==
    LET x == IF "CWX" \in value_mask THEN XConfigureWindowC(xc, w, "CWX", e.x) ELSE xc
        y == IF "CWY" \in value_mask THEN XConfigureWindowC(x, w, "CWY", e.y) ELSE x
        width == IF "CWWidth" \in value_mask
                 THEN XConfigureWindowC(y, w, "CWWidth", e.width) ELSE y
        height == IF "CWHeight" \in value_mask
                  THEN XConfigureWindowC(width, w, "CWHeight", e.height) ELSE width
    IN  IF "CWBorderWidth" \in value_mask
        THEN XConfigureWindowC(height, w, "CWBorderWidth", e.border_width) ELSE height

\* process_configure_request; e->parent is the parent the server knows
process_configure_request(w, value_mask, e) ==
    /\ pc = "loop" /\ running
    /\ xclient[w].state = "alive"
    /\ LET frame == search_frame_of_child(w)
           parent == xclient[w].parent
       IN  IF frame # NULL
           THEN /\ xframe' = configure_frame_parent(xframe, parent, value_mask, e)
                /\ xclient' = configure_frame_child(xclient, w, value_mask, e)
           ELSE /\ xframe' = xframe
                /\ xclient' = configure_unframed(xclient, w, value_mask, e)
    /\ last' = Note([op |-> "ConfigureRequest", w |-> w, reqs |-> <<>>])
    /\ UNCHANGED <<wmvars, next_window, buttons, grab>>

(***************************************************************************)
(* The clients.                                                            *)
(***************************************************************************)
\* a client exits (by itself, or in answer to WM_DELETE_WINDOW): the server
\* destroys its window
KilledClient(xc, w) ==
    IF w \in Clients /\ xc[w].state = "alive"
    THEN [xc EXCEPT ![w].state = "dead", ![w].mapped = FALSE]
    ELSE xc

ClientExits(w) ==
    /\ pc \in {"startup", "loop"}
    /\ xclient[w].state = "alive"
    /\ xclient' = KilledClient(xclient, w)
    /\ grab' = IF grab = w THEN NoWindow ELSE grab
    /\ UNCHANGED <<wmvars, xframe, next_window, buttons, last>>

(***************************************************************************)
(* Start.                                                                  *)
(***************************************************************************)
\* the top-level windows XQueryTree lists: those that exist and have not
\* been reparented yet; reparent_toplevels takes them in order
Toplevels == {w \in Clients : xclient[w].state = "alive" /\ xclient[w].parent = Root}

\* one turn of the loop of reparent_toplevels
reparent_toplevels(h) ==
    /\ pc = "startup"
    /\ Toplevels # {}
    /\ CanCreateFrame
    /\ \E r \in reparent_window(SetMin(Toplevels), h) :
         /\ heap' = r.heap
         /\ allocated' = r.allocated
         /\ all_frames' = r.all_frames
         /\ frames_z_order' = r.frames_z_order
         /\ xframe' = r.xframe
         /\ xclient' = r.xclient
         /\ next_window' = r.next_window
         /\ last' = Note([op |-> "reparent_toplevels", w |-> SetMin(Toplevels), reqs |-> r.reqs])
    /\ UNCHANGED <<pc, running, grasped_position, grasped_frame, grasped_x, grasped_y,
                   grasped_width, grasped_height, popup_menu, clock_x, buttons, grab>>

\* wm_main after reparent_toplevels: the taskbar is mapped and the loop starts
enter_main_loop ==
    /\ pc = "startup"
    /\ Toplevels = {}
    /\ pc' = "loop"
    /\ UNCHANGED <<running, heap, allocated, all_frames, frames_z_order,
                   grasped_position, grasped_frame, grasped_x, grasped_y,
                   grasped_width, grasped_height, popup_menu, clock_x, xvars, last>>

\* while (wm->running): the loop ends once running is False
leave_main_loop ==
    /\ pc = "loop"
    /\ ~running
    /\ pc' = "exited"
    /\ UNCHANGED <<running, heap, allocated, all_frames, frames_z_order,
                   grasped_position, grasped_frame, grasped_x, grasped_y,
                   grasped_width, grasped_height, popup_menu, clock_x, xvars, last>>


(***************************************************************************)
(* Popup menu and taskbar.                                                 *)
(***************************************************************************)
\* the menu of the configuration: one command and the exit item; the popup
\* menu keeps the menu it was set up with in its field items
MenuItems == <<"MENU_ITEM_TYPE_EXEC", "MENU_ITEM_TYPE_EXIT">>

\* setup_popup_menu
PopupWidth == 2 * PopupMargin + CaptionWidth

PopupHeight(pm) == TitleHeight * Len(pm.items)

\* setup_taskbar
TaskbarHeight == TitleHeight + 2 * PaddingSize

\* draw_clock: x of the clock text
ClockX == RootWidth - ClockTextWidth - PaddingSize

\* map_popup_menu: the sums are made in unsigned arithmetic
map_popup_menu(pm, x, y) ==
    LET menu_height == PopupHeight(pm)
        menu_x == IF ULess(RootWidth, x + PopupWidth) THEN x - PopupWidth ELSE x
        menu_y == IF ULess(RootHeight, y + 1 + menu_height) THEN y - menu_height - 1 ELSE y + 1
    IN  [pm EXCEPT !.mapped = TRUE, !.x = menu_x, !.y = menu_y, !.selected_item = -1]

unmap_popup_menu(pm) == [pm EXCEPT !.mapped = FALSE]

\* detect_selected_popup_item: the popup's geometry is read whether or not
\* the popup is mapped
detect_selected_popup_item(pm, x, y) ==
    IF ~is_region_inside(pm.x, pm.y, PopupWidth, PopupHeight(pm), x, y) THEN -1
    ELSE LET index == CDiv(y - pm.y, TitleHeight)
         IN  IF Len(pm.items) <= index THEN -1 ELSE index

\* highlight_selected_popup_item
highlight_selected_popup_item(pm, x, y) ==
    [pm EXCEPT !.selected_item = detect_selected_popup_item(pm, x, y)]

\* focus_window_of_taskbar: what items[x / (clock_x / nframes)] may be.
\* NULL stands for the end of the process: SIGFPE when the divisor is 0, or
\* SIGSEGV on what lies behind the last entry.  An index >= size reads a
\* cell of the array that holds no entry: any pointer may be there.
taskbar_frames(x) ==
    LET nframes == Len(all_frames)
        divisor == CDiv(clock_x, nframes)
        index == CDiv(x, divisor)
    IN  IF divisor = 0 THEN {NULL}
        ELSE IF index < nframes THEN {all_frames[index + 1]}
        ELSE Slots \cup {NULL}

\* draw_window_list: the width of an entry of the window list, for the
\* list_right_x draw_taskbar gives
list_item_width == CDiv((clock_x - PaddingSize) - TaskbarHeight, Len(all_frames))

\* draw_window_list: x of the entry of all_frames.items[i]
list_entry_x(i) == TaskbarHeight + list_item_width * i

\* process_expose for the taskbar: draw_taskbar -> draw_clock
process_expose ==
    /\ pc = "loop" /\ running
    /\ clock_x' = ClockX
    /\ last' = Note([op |-> "Expose", w |-> TaskbarWindow, reqs |-> <<>>])
    /\ UNCHANGED <<pc, running, heap, allocated, all_frames, frames_z_order,
                   grasped_position, grasped_frame, grasped_x, grasped_y,
                   grasped_width, grasped_height, popup_menu, xvars>>


(***************************************************************************)
(* Button press.                                                           *)
(***************************************************************************)
\* close_frame with the test of wm_delete_window left out
close_frame_reqs_always_asks(frame) ==
    << <<"XSendEvent", heap[frame].child>> >>

\* close_frame: XKillClient, or the WM_DELETE_WINDOW client message
close_frame_reqs(frame) ==
    IF ~heap[frame].wm_delete_window
    THEN << <<"XKillClient", heap[frame].child>> >>
    ELSE << <<"XSendEvent", heap[frame].child>> >>

\* process_button_press; buttons, grab and drag are the pointer's side
process_button_press(button, w, x, y) ==
    /\ pc = "loop" /\ running
    /\ IF button # Button1
       THEN /\ last' = Note([op |-> "ButtonPress", w |-> w, reqs |-> <<>>])
            /\ UNCHANGED <<wmvars, xframe, xclient, next_window>>
       ELSE IF w = Root
       THEN /\ popup_menu' = map_popup_menu(popup_menu, x, y)
            /\ last' = Note([op |-> "ButtonPress", w |-> w, reqs |-> << <<"XMapRaised", PopupWindow>> >>])
            /\ UNCHANGED <<pc, running, heap, allocated, all_frames, frames_z_order,
                           graspvars, clock_x, xframe, xclient, next_window>>
       ELSE IF w = TaskbarWindow
       THEN IF clock_x < x
            THEN /\ last' = Note([op |-> "ButtonPress", w |-> w, reqs |-> <<>>])
                 /\ UNCHANGED <<wmvars, xframe, xclient, next_window>>
            ELSE IF ULess(x, TaskbarHeight)
            THEN /\ popup_menu' = map_popup_menu(popup_menu, 0, RootHeight - TaskbarHeight)
                 /\ last' = Note([op |-> "ButtonPress", w |-> w, reqs |-> << <<"XMapRaised", PopupWindow>> >>])
                 /\ UNCHANGED <<pc, running, heap, allocated, all_frames, frames_z_order,
                                graspvars, clock_x, xframe, xclient, next_window>>
            ELSE IF Len(all_frames) = 0
            THEN /\ last' = Note([op |-> "ButtonPress", w |-> w, reqs |-> <<>>])
                 /\ UNCHANGED <<wmvars, xframe, xclient, next_window>>
            ELSE \E frame \in taskbar_frames(x) :
                   IF frame = NULL
                   THEN /\ pc' = "crashed"
                        /\ last' = Note([op |-> "ButtonPress", w |-> w, reqs |-> <<>>])
                        /\ UNCHANGED <<running, heap, allocated, all_frames, frames_z_order,
                                       graspvars, popup_menu, clock_x, xframe, xclient, next_window>>
                   ELSE \E z \in move_frame_to_z_order_head(frames_z_order, frame) :
                          /\ frames_z_order' = z
                          /\ xframe' = XMapWindowF(xframe, heap[frame].window)
                          /\ last' = Note([op |-> "ButtonPress", w |-> w,
                                      reqs |-> << <<"XMapWindow", heap[frame].window>>,
                                                  <<"XRaiseWindow", heap[frame].window>>,
                                                  <<"XSetInputFocus", heap[frame].child>> >>])
                          /\ UNCHANGED <<pc, running, heap, allocated, all_frames, graspvars,
                                         popup_menu, clock_x, xclient, next_window>>
       ELSE IF search_frame_of_child(w) # NULL
       THEN LET frame == search_frame_of_child(w)
            IN  \E z \in move_frame_to_z_order_head(frames_z_order, frame) :
                  /\ frames_z_order' = z
                  /\ last' = Note([op |-> "ButtonPress", w |-> w,
                              reqs |-> << <<"XRaiseWindow", heap[frame].window>>,
                                          <<"XSetInputFocus", heap[frame].child>>,
                                          <<"XAllowEvents", w>> >>])
                  /\ UNCHANGED <<pc, running, heap, allocated, all_frames, graspvars,
                                 popup_menu, clock_x, xframe, xclient, next_window>>
       ELSE IF search_frame(w) = NULL
       THEN /\ last' = Note([op |-> "ButtonPress", w |-> w, reqs |-> <<>>])
            /\ UNCHANGED <<wmvars, xframe, xclient, next_window>>
       ELSE LET frame == search_frame(w)
            IN  IF heap[frame].status = FOCUS_CLOSE
                THEN /\ xclient' = IF heap[frame].wm_delete_window THEN xclient
                                   ELSE KilledClient(xclient, heap[frame].child)
                     /\ last' = Note([op |-> "close_frame", w |-> w, reqs |-> close_frame_reqs(frame)])
                     /\ UNCHANGED <<wmvars, xframe, next_window>>
                ELSE IF heap[frame].status = FOCUS_MINIMIZE
                THEN /\ unmap_frame("unmap_frame", w, frame)
                     /\ UNCHANGED <<pc, running, heap, allocated, all_frames, graspvars,
                                    popup_menu, clock_x, xclient, next_window>>
                ELSE \E z \in move_frame_to_z_order_head(frames_z_order, frame) :
                       /\ frames_z_order' = z
                       /\ grasped_position' = detect_frame_position(xframe[w].width, xframe[w].height, x, y)
                       /\ grasped_frame' = w
                       /\ grasped_x' = x
                       /\ grasped_y' = y
                       /\ grasped_width' = xframe[w].width
                       /\ grasped_height' = xframe[w].height
                       /\ last' = Note([op |-> "grasp_frame", w |-> w,
                                   reqs |-> << <<"XRaiseWindow", w>>,
                                               <<"XSetInputFocus", heap[frame].child>> >>])
                       /\ UNCHANGED <<pc, running, heap, allocated, all_frames,
                                      popup_menu, clock_x, xframe, xclient, next_window>>

(***************************************************************************)
(* Button release.                                                         *)
(***************************************************************************)
\* an item type that is never MENU_ITEM_TYPE_EXIT
is_exit_item_never(pm, index) == FALSE

\* process_button_release: case MENU_ITEM_TYPE_EXIT of the item selected
is_exit_item(pm, index) == index >= 0 /\ pm.items[index + 1] = "MENU_ITEM_TYPE_EXIT"

\* process_button_release, for any button
process_button_release(w, x_root, y_root) ==
    /\ pc = "loop" /\ running
    /\ IF search_frame(w) # NULL
       THEN /\ grasped_position' = GP_NONE
            /\ last' = Note([op |-> "release_frame", w |-> w, reqs |-> <<>>])
            /\ UNCHANGED <<pc, running, heap, allocated, all_frames, frames_z_order,
                           grasped_frame, grasped_x, grasped_y, grasped_width,
                           grasped_height, popup_menu, clock_x, xframe, xclient, next_window>>
       ELSE LET index == detect_selected_popup_item(popup_menu, x_root, y_root)
            IN  /\ popup_menu' = unmap_popup_menu(popup_menu)
                /\ running' = IF is_exit_item(popup_menu, index) THEN FALSE ELSE running
                /\ last' = Note([op |-> "ButtonRelease", w |-> w,
                            reqs |-> IF index >= 0 /\ popup_menu.items[index + 1] = "MENU_ITEM_TYPE_EXEC"
                                     THEN << <<"XUnmapWindow", PopupWindow>>, <<"execute", index>> >>
                                     ELSE << <<"XUnmapWindow", PopupWindow>> >>])
                /\ UNCHANGED <<pc, heap, allocated, all_frames, frames_z_order, graspvars,
                               clock_x, xframe, xclient, next_window>>


(***************************************************************************)
(* Motion.                                                                 *)
(***************************************************************************)
WestZones == {GP_SOUTH_WEST, GP_WEST, GP_NORTH_WEST}
EastZones == {GP_NORTH_EAST, GP_EAST, GP_SOUTH_EAST}
NorthZones == {GP_NORTH, GP_NORTH_EAST, GP_NORTH_WEST}
SouthZones == {GP_SOUTH_EAST, GP_SOUTH, GP_SOUTH_WEST}

\* the pointer delta handed to floor_int for the width and for the height
raw_inc_x_follows_new_x(pos, fa, x, new_x) ==
    IF pos \in EastZones THEN x - grasped_x ELSE new_x - fa.x

raw_inc_x(pos, fa, x, new_x) ==
    IF pos \in EastZones THEN x - grasped_x ELSE fa.x - new_x

raw_inc_y(pos, fa, y, new_y) ==
    IF pos \in SouthZones THEN y - grasped_y ELSE fa.y - new_y

\* floor_int divides: inc = 0 ends the process with SIGFPE
resize_divides_by_zero(pos, frame) ==
    \/ pos \in (WestZones \cup EastZones) /\ heap[frame].width_inc = 0
    \/ pos \in (NorthZones \cup SouthZones) /\ heap[frame].height_inc = 0

\* the switch of process_motion_notify: the geometry asked for the frame
resize_request(pos, frame, fa, x, y, new_x, new_y) ==
    LET inc_x == IF pos \in (WestZones \cup EastZones)
                 THEN floor_int(raw_inc_x(pos, fa, x, new_x), heap[frame].width_inc) ELSE 0
        inc_y == IF pos \in (NorthZones \cup SouthZones)
                 THEN floor_int(raw_inc_y(pos, fa, y, new_y), heap[frame].height_inc) ELSE 0
    IN  [x |-> IF pos \in WestZones THEN fa.x - inc_x ELSE fa.x,
         y |-> IF pos \in NorthZones THEN fa.y - inc_y ELSE fa.y,
         width |-> IF pos \in EastZones THEN grasped_width + inc_x ELSE fa.width + inc_x,
         height |-> IF pos \in SouthZones THEN grasped_height + inc_y ELSE fa.height + inc_y,
         inc_x |-> inc_x, inc_y |-> inc_y]

\* resize_child
resize_child(xc, w, frame_width, frame_height) ==
    XResizeWindowC(xc, w, frame_width - compute_frame_width, frame_height - compute_frame_height)

update_frame_status(hp, frame, status) == [hp EXCEPT ![frame].status = status]

\* process_motion_notify; button1 is (e->state & Button1Mask) != 0
process_motion_notify(w, x, y, button1) ==
    /\ pc = "loop" /\ running
    /\ IF w = Root \/ w = TaskbarWindow
       THEN /\ popup_menu' = highlight_selected_popup_item(popup_menu, x, y)
            /\ last' = Note([op |-> "MotionNotify", w |-> w, reqs |-> <<>>])
            /\ UNCHANGED <<pc, running, heap, allocated, all_frames, frames_z_order,
                           graspvars, clock_x, xframe, xclient, next_window>>
       ELSE IF search_frame(w) = NULL
       THEN /\ last' = Note([op |-> "MotionNotify", w |-> w, reqs |-> <<>>])
            /\ UNCHANGED <<wmvars, xframe, xclient, next_window>>
       ELSE IF ~button1
       THEN /\ heap' = update_frame_status(heap, search_frame(w),
                                           detect_frame_status(xframe[w].width, x, y))
            /\ last' = Note([op |-> "MotionNotify", w |-> w, reqs |-> <<>>])
            /\ UNCHANGED <<pc, running, allocated, all_frames, frames_z_order,
                           graspvars, popup_menu, clock_x, xframe, xclient, next_window>>
       ELSE IF grasped_position = GP_NONE
       THEN /\ last' = Note([op |-> "MotionNotify", w |-> w, reqs |-> <<>>])
            /\ UNCHANGED <<wmvars, xframe, xclient, next_window>>
       ELSE LET frame == search_frame(w)
                fa == xframe[w]
                x_root == fa.x + BorderSize + x
                y_root == fa.y + BorderSize + y
                new_x == x_root - grasped_x - BorderSize
                new_y == y_root - grasped_y - BorderSize
                pos == grasped_position
            IN  IF pos = GP_TITLE_BAR
                THEN /\ xframe' = XMoveWindowF(xframe, w, new_x, new_y)
                     /\ last' = Note([op |-> "MotionNotify", w |-> w,
                                 reqs |-> << <<"XMoveWindow", w, new_x, new_y>> >>])
                     /\ UNCHANGED <<wmvars, xclient, next_window>>
                ELSE IF resize_divides_by_zero(pos, frame)
                THEN /\ pc' = "crashed"
                     /\ last' = Note([op |-> "MotionNotify", w |-> w, reqs |-> <<>>])
                     /\ UNCHANGED <<running, heap, allocated, all_frames, frames_z_order,
                                    graspvars, popup_menu, clock_x, xframe, xclient, next_window>>
                ELSE LET r == resize_request(pos, frame, fa, x, y, new_x, new_y)
                     IN  /\ xframe' = XMoveResizeWindowF(xframe, w, r.x, r.y, r.width, r.height)
                         /\ xclient' = resize_child(xclient, heap[frame].child, r.width, r.height)
                         /\ last' = Note([op |-> "MotionNotify", w |-> w,
                                     reqs |-> << <<"resize", pos, r.inc_x, r.inc_y,
                                                   raw_inc_x(pos, fa, x, new_x),
                                                   raw_inc_y(pos, fa, y, new_y)>> >>])
                         /\ UNCHANGED <<wmvars, next_window>>


(***************************************************************************)
(* The events the environment can produce, and their inputs.               *)
(***************************************************************************)
\* what the X server answers about a window when reparent_window asks
Hints(protocols, incs) ==
    {[x |-> ClientX, y |-> ClientY, width |-> ClientWidth, height |-> ClientHeight,
      wm_delete_window |-> p, width_inc |-> i, height_inc |-> i, title |-> "title"]
        : p \in protocols, i \in incs}

\* named points of a frame window of the given size, in its own coordinates
FramePoint(name, width, height) ==
    CASE name = "title" -> <<40, FrameSize + 2>>
      [] name = "body" -> <<40, 50>>
      [] name = "minimize" -> <<width - (2 * TitleHeight + FrameSize) - 2, FrameSize + 2>>
      [] name = "maximize" -> <<width - (TitleHeight + FrameSize) - 2, FrameSize + 2>>
      [] name = "close" -> <<width - FrameSize - 2, FrameSize + 2>>
      [] name = "north" -> <<50, 2>>
      [] name = "north_east" -> <<width - 2, 2>>
      [] name = "east" -> <<width - 2, 50>>
      [] name = "south_east" -> <<width - 2, height - 2>>
      [] name = "south" -> <<50, height - 2>>
      [] name = "south_west" -> <<2, height - 2>>
      [] name = "west" -> <<2, 50>>
      [] name = "north_west" -> <<2, 2>>

MappedFrames == {f \in FrameWindows : xframe[f].exists /\ xframe[f].mapped}

\* client windows a press can land on: inside a mapped frame
PressableClients ==
    {c \in Clients : xclient[c].state = "alive" /\ xclient[c].parent \in MappedFrames}

\* frames are followed while they stay near the geometry they were made with
NearStart(xf) ==
    \A f \in FrameWindows :
        xf[f].exists =>
            /\ Abs(xf[f].x - ClientX) <= MaxDrift
            /\ Abs(xf[f].y - ClientY) <= MaxDrift
            /\ Abs(xf[f].width - (ClientWidth + compute_frame_width)) <= MaxDrift
            /\ Abs(xf[f].height - (ClientHeight + compute_frame_height)) <= MaxDrift

(***************************************************************************)
(* main before wm_main: read_config and the output of the config tool.      *)
(***************************************************************************)
\* a byte nothing has been stored in yet
Indeterminate == -2

Bytes == 0..(ByteBase - 1)

\* fread(ptr, n, 1, src): one item of n bytes. It returns the number of
\* items read, 1 or 0; at the end of the stream it takes what is left.
fread(input, pos, n) ==
    IF Len(input) - pos >= n
    THEN [items |-> 1, bytes |-> SubSeq(input, pos + 1, pos + n), pos |-> pos + n]
    ELSE [items |-> 0, bytes |-> SubSeq(input, pos + 1, Len(input)),
          pos |-> Len(input)]

\* one turn of read_file's loop, with nbytes < size: the item goes to
\* dest + nbytes and nbytes grows by fread's return value
read_file(dest, nbytes, input, pos) ==
    LET r == fread(input, pos, Len(dest) - nbytes)
    IN  [dest |-> [i \in 1..Len(dest) |->
                     IF nbytes < i /\ i <= nbytes + Len(r.bytes)
                     THEN r.bytes[i - nbytes] ELSE dest[i]],
         nbytes |-> nbytes + r.items,
         pos |-> r.pos]

\* the size_t the bytes of buf hold (least significant byte first)
RECURSIVE SizeValue(_)
SizeValue(buf) ==
    IF buf = <<>> THEN 0 ELSE Head(buf) + ByteBase * SizeValue(Tail(buf))

\* read_config after popen, for a tool that writes input and exits with status
ConfigAt(input, status) ==
    [pc |-> "size", input |-> input, pos |-> 0, status |-> status,
     size |-> [i \in 1..SizeofSizeT |-> Indeterminate], nbytes |-> 0,
     blob |-> <<>>, exit |-> 0]

\* read_config has returned True: an empty blob, read from three zero bytes
LoadedConfig ==
    [pc |-> "loaded", input |-> <<0, 0, 0>>, pos |-> 3, status |-> 0,
     size |-> <<0, 0>>, nbytes |-> 0, blob |-> <<>>, exit |-> 0]

\* read_file(&size, fpin, sizeof(size)) or read_file(*config, fpin, size):
\* one turn of the loop and, when it was the last, what follows up to the
\* next read
read_config_read ==
    /\ pc = "startup"
    /\ config.pc \in {"size", "payload"}
    /\ LET dest == IF config.pc = "size" THEN config.size ELSE config.blob
           r == read_file(dest, config.nbytes, config.input, config.pos)
           size == SizeValue(r.dest)
       IN  config' =
             IF r.nbytes < Len(dest)
             THEN IF config.pc = "size"
                  THEN [config EXCEPT !.size = r.dest, !.nbytes = r.nbytes,
                                      !.pos = r.pos]
                  ELSE [config EXCEPT !.blob = r.dest, !.nbytes = r.nbytes,
                                      !.pos = r.pos]
             ELSE IF config.pc = "size"
                  THEN [config EXCEPT !.size = r.dest, !.nbytes = 0, !.pos = r.pos,
                                      !.blob = [i \in 1..size |-> Indeterminate],
                                      !.pc = IF size = 0 THEN "pclose" ELSE "payload"]
                  ELSE [config EXCEPT !.blob = r.dest, !.nbytes = r.nbytes,
                                      !.pos = r.pos, !.pc = "pclose"]
    /\ UNCHANGED <<wmvars, xvars>>

\* ferror(src) is set: read_file returns False, read_config returns False
\* and main returns 1
read_config_error ==
    /\ pc = "startup"
    /\ config.pc \in {"size", "payload"}
    /\ config' = [config EXCEPT !.pc = "failed", !.exit = 1]
    /\ pc' = "exited"
    /\ UNCHANGED <<running, heap, allocated, all_frames, frames_z_order,
                   graspvars, popup_menu, clock_x, xvars>>

\* pclose(fpin): read_config returns False when the tool failed, and main
\* returns 1; else convert_offset_to_pointer, and main goes on to wm_main
read_config_pclose ==
    /\ pc = "startup"
    /\ config.pc = "pclose"
    /\ IF config.status # 0
       THEN /\ config' = [config EXCEPT !.pc = "failed", !.exit = 1]
            /\ pc' = "exited"
       ELSE /\ config' = [config EXCEPT !.pc = "loaded"]
            /\ pc' = pc
    /\ UNCHANGED <<running, heap, allocated, all_frames, frames_z_order,
                   graspvars, popup_menu, clock_x, xvars>>

(***************************************************************************)
(* execute: the window manager forks an intermediate child and waits for   *)
(* it; the child forks the process that runs the command and exits.  Here  *)
(* execute is followed fork by fork; the handlers above take it as one     *)
(* request.                                                                *)
(***************************************************************************)
\* child: the intermediate child ("none", "forked", or "zombie" once it has
\* exited and is not waited for yet); commands: the processes that run a
\* launched command; launched: the calls of execute so far; ended: the
\* commands that have come to their end
NoProcs == [child |-> "none", commands |-> 0, launched |-> 0, ended |-> 0]

\* process_button_release up to its call of execute: a release over an
\* exec item of the popup menu
execute_begin(w, x_root, y_root) ==
    /\ pc = "loop" /\ running
    /\ search_frame(w) = NULL
    /\ procs.launched < MaxCommands
    /\ LET index == detect_selected_popup_item(popup_menu, x_root, y_root)
       IN  /\ index >= 0
           /\ popup_menu.items[index + 1] = "MENU_ITEM_TYPE_EXEC"
           /\ last' = Note([op |-> "ButtonRelease", w |-> w,
                            reqs |-> << <<"XUnmapWindow", PopupWindow>>,
                                        <<"execute", index>> >>])
    /\ popup_menu' = unmap_popup_menu(popup_menu)
    /\ pc' = "do_fork"
    /\ procs' = [procs EXCEPT !.launched = @ + 1]
    /\ UNCHANGED <<running, heap, allocated, all_frames, frames_z_order, graspvars,
                   clock_x, xframe, xclient, next_window>>

\* do_fork in execute: fork fails and the window manager exits, or the
\* intermediate child exists and the window manager calls waitpid
do_fork ==
    /\ pc = "do_fork"
    /\ \/ pc' = "exited" /\ procs' = procs
       \/ pc' = "waitpid" /\ procs' = [procs EXCEPT !.child = "forked"]

\* the intermediate child: fork_child forks the process that execs the
\* command and exits with 0, or its fork fails and it exits with 1
fork_child ==
    /\ procs.child = "forked"
    /\ \E forked \in {0, 1} :
         procs' = [procs EXCEPT !.child = "zombie", !.commands = @ + forked]
    /\ pc' = pc

\* waitpid waits for the command too
child_and_commands_have_exited(p) == p.child = "zombie" /\ p.commands = 0

\* waitpid(pid, NULL, 0) can return: the intermediate child has exited
child_has_exited(p) == p.child = "zombie"

\* waitpid returns, the child is reaped and execute returns to the handler,
\* which returns to the main loop
waitpid ==
    /\ pc = "waitpid"
    /\ child_has_exited(procs)
    /\ procs' = [procs EXCEPT !.child = "none"]
    /\ pc' = "loop"

\* a launched command comes to its end (or execv failed): init, its parent
\* since the intermediate child exited, waits for it
command_exits ==
    /\ procs.commands > 0
    /\ procs' = [procs EXCEPT !.commands = @ - 1, !.ended = @ + 1]
    /\ pc' = pc

(***************************************************************************)
(* X protocol errors.                                                      *)
(***************************************************************************)
\* error_handler, called by Xlib for an error the server reports; opens
\* tells whether fopen("fawm-error.log", "a") succeeds. Without the file
\* assert(fp != NULL) aborts the process. With it, log_error hands its
\* va_list to print_message twice, and the second reading of the arguments
\* is undefined: the handler returns or the process dies in vsnprintf.
error_handler(opens) ==
    /\ pc \in {"startup", "loop"}
    /\ config.pc = "loaded"
    /\ pc' \in (IF opens THEN {pc, "crashed"} ELSE {"crashed"})
    /\ UNCHANGED <<running, heap, allocated, all_frames, frames_z_order,
                   graspvars, popup_menu, clock_x, xvars>>

\* the arrays are followed while they hold at most MaxEntries entries
(***************************************************************************)
(* The earlier version of the window manager, src/src/main.c.  Its frames  *)
(* are a linked list; the newest frame is the first.  It is followed from  *)
(* the main loop on, with its own X session.                               *)
(***************************************************************************)
\* not followed
NoOld == [pc |-> "off"]

(***************************************************************************)
(* __fawm_config__ writes the configuration to the pipe read_config reads. *)
(***************************************************************************)
\* not followed
NoPipe == [pc |-> "off"]

ArraysFit(a, z) == Len(a) <= MaxEntries /\ Len(z) <= MaxEntries

Idle == [phase |-> "idle", frame |-> NoWindow]

InitAll(started, watched, menus, outputs, olds, pipes) ==
    /\ pc = "startup"
    /\ running = TRUE
    /\ heap = [s \in Slots |-> FreedFrame]
    /\ allocated = {}
    /\ all_frames = <<>>
    /\ frames_z_order = <<>>
    /\ grasped_position = GP_NONE
    /\ grasped_frame = NoWindow
    /\ grasped_x = 0
    /\ grasped_y = 0
    /\ grasped_width = 0
    /\ grasped_height = 0
    /\ \E items \in menus :
         popup_menu = [mapped |-> FALSE, x |-> 0, y |-> 0, selected_item |-> -1,
                       items |-> items]
    /\ clock_x = 0
    /\ xframe = [f \in FrameWindows |-> NoFrameWindow]
    /\ \E k \in started :
         xclient = [c \in Clients |->
                      IF c <= k
                      THEN [state |-> "alive", parent |-> Root, mapped |-> TRUE,
                            x |-> ClientX, y |-> ClientY,
                            width |-> ClientWidth, height |-> ClientHeight,
                            border_width |-> 0]
                      ELSE UnbornClient]
    /\ next_window = 0
    /\ buttons = {}
    /\ grab = NoWindow
    /\ last = NoEvent
    /\ drag = Idle
    /\ watch = watched
    /\ queue = <<>>
    /\ drained = 0
    /\ config \in outputs
    /\ procs = NoProcs
    /\ old \in olds
    /\ pipe \in pipes

\* main of src/fawm/main.c alone: the earlier version and the config tool
\* are not followed
InitMain(started, watched, menus, outputs) ==
    InitAll(started, watched, menus, outputs, {NoOld}, {NoPipe})

InitMenu(started, watched, menus) == InitMain(started, watched, menus, {LoadedConfig})

InitWith(started, watched) == InitMenu(started, watched, {MenuItems})

Startup(H) ==
    \E h \in H[SetMin(Toplevels \cup {NClients})] :
        /\ config.pc = "loaded"
        /\ reparent_toplevels(h)
        /\ ArraysFit(all_frames', frames_z_order')
        /\ UNCHANGED history

EnterMainLoop == config.pc = "loaded" /\ enter_main_loop /\ UNCHANGED history

LeaveMainLoop == leave_main_loop /\ UNCHANGED history

\* the server reports an error for a request made earlier
XError(L) == \E opens \in L : error_handler(opens) /\ UNCHANGED <<last, history>>

ReadConfig ==
    /\ \/ read_config_read
       \/ read_config_error
       \/ read_config_pclose
    /\ UNCHANGED <<last, drag, watch, queue, drained, procs, old, pipe>>

\* a window whose MapRequest is in the queue: one a client has just created
\* and mapped, one a client has withdrawn and maps again, or one that has
\* gone since the request was made
MapRequest(C, H) ==
    \E w \in C : \E h \in H[w] :
        /\ xclient[w].state = "dead" =>
              (search_frame_of_child(w) # NULL \/ xclient[w].parent = Root)
        /\ process_map_request(w, h)
        /\ ArraysFit(all_frames', frames_z_order')
        /\ UNCHANGED history

\* a client creates a window, asks to map it and goes before the request is
\* handled: the MapRequest in the queue names a window that is gone
ClientVanishes(C) ==
    \E w \in C :
        /\ pc = "loop"
        /\ xclient[w].state = "unborn"
        /\ xclient' = [xclient EXCEPT ![w].state = "dead"]
        /\ UNCHANGED <<wmvars, xframe, next_window, buttons, grab, last, history>>

ClientExit(C) ==
    \E w \in C : ClientExits(w) /\ UNCHANGED history

DestroyNotify(C) ==
    \E w \in C :
        /\ xclient[w].parent # Root
        /\ process_destroy_notify(w)
        /\ UNCHANGED history

UnmapNotify(C) ==
    \E w \in C : process_unmap_notify(w) /\ UNCHANGED history

Expose == process_expose /\ UNCHANGED history


(***************************************************************************)
(* The pointer.  A button that goes down while no button is held starts    *)
(* a grab by the window it went down on; the grab lasts until all buttons  *)
(* are up or the window stops being viewable.  While a grab lasts, button  *)
(* and motion events go to its window.                                     *)
(***************************************************************************)
\* the windows a button event can be reported for
ButtonWindows == IF grab = NoWindow THEN {Root, TaskbarWindow} \cup MappedFrames ELSE {grab}

AllWindows == {Root, TaskbarWindow} \cup FrameWindows \cup Clients

\* the coordinates the event carries: root coordinates for the root, taskbar
\* coordinates for the taskbar, frame coordinates for a frame
PressPoints(w, P, T) ==
    IF w = Root THEN {<<5, 5>>}
    ELSE IF w = TaskbarWindow THEN {<<t, 2>> : t \in T}
    ELSE IF w \in Clients THEN {<<1, 1>>}
    ELSE {FramePoint(n, xframe[w].width, xframe[w].height) : n \in P}

ButtonPress(B, W, P, T) ==
    \E button \in B :
      \E w \in W \cap ((ButtonWindows \ Clients)
               \cup (IF button = Button1 /\ grab = NoWindow THEN PressableClients ELSE {})) :
        \E pt \in PressPoints(w, P, T) :
          /\ button \notin buttons
          /\ process_button_press(button, w, pt[1], pt[2])
          /\ ArraysFit(all_frames', frames_z_order')
          /\ buttons' = buttons \cup {button}
          /\ grab' = GrabAfter(xframe', w)
          /\ drag' = IF button = Button1 /\ w \in FrameWindows
                     THEN [phase |-> "held", frame |-> w]
                     ELSE drag
          /\ UNCHANGED <<watch, osvars, queue, drained>>

\* a drag ends with the next release of a button
DragAfterRelease == IF drag.phase = "held" THEN [phase |-> "ended", frame |-> NoWindow] ELSE drag

\* where the pointer is on the screen when a button goes up: at one of the
\* spots Q, given relative to the popup menu's corner, or on the taskbar
ReleasePoints(w, Q) ==
    IF w = TaskbarWindow THEN {<<20, RootHeight - 2>>}
    ELSE {<<popup_menu.x + q[1], popup_menu.y + q[2]>> : q \in Q}

ButtonRelease(Q) ==
    \E button \in buttons, w \in ButtonWindows \ Clients :
      \E pt \in ReleasePoints(w, Q) :
        /\ process_button_release(w, pt[1], pt[2])
        /\ buttons' = buttons \ {button}
        /\ grab' = IF buttons' = {} THEN NoWindow ELSE grab
        /\ drag' = DragAfterRelease
        /\ UNCHANGED <<watch, osvars, queue, drained>>

\* after ReplayPointer the press on a client window is the client's: the
\* release is reported to the client, not to the window manager
ButtonReleaseAtClient ==
    \E button \in buttons :
        /\ grab \in Clients
        /\ buttons' = buttons \ {button}
        /\ grab' = IF buttons' = {} THEN NoWindow ELSE grab
        /\ drag' = DragAfterRelease
        /\ UNCHANGED <<watch, osvars, queue, drained, wmvars, xframe, xclient, next_window, last>>

\* the windows a motion event can be reported for: the root and the taskbar
\* select Button1MotionMask, the frames PointerMotionMask
MotionWindows ==
    {w \in ButtonWindows \ Clients : w \in {Root, TaskbarWindow} => Button1 \in buttons}

\* P: named points of the frame, for the pointer that moves with no button
\* down; D: steps away from the point of the grasp, for the pointer that
\* moves with button 1 down
MotionPoints(w, P, D, Q) ==
    IF w \in {Root, TaskbarWindow}
    THEN {<<popup_menu.x + q[1], popup_menu.y + q[2]>> : q \in Q}
    ELSE IF Button1 \in buttons
    THEN {<<grasped_x + d[1], grasped_y + d[2]>> : d \in D}
    ELSE {FramePoint(n, xframe[w].width, xframe[w].height) : n \in P}

MotionNotify(W, P, D, Q) ==
    \E w \in W \cap MotionWindows :
      \E pt \in MotionPoints(w, P, D, Q) :
        /\ process_motion_notify(w, pt[1], pt[2], Button1 \in buttons)
        /\ NearStart(xframe')
        /\ UNCHANGED <<buttons, grab, history>>

\* the frames stay within drift of the column x0, and near the row and the
\* height they were made with
NearColumn(xf, x0, drift) ==
    \A f \in FrameWindows :
        xf[f].exists =>
            /\ Abs(xf[f].x - x0) <= drift
            /\ Abs(xf[f].width - (ClientWidth + compute_frame_width)) <= drift
            /\ Abs(xf[f].y - ClientY) <= MaxDrift
            /\ Abs(xf[f].height - (ClientHeight + compute_frame_height)) <= MaxDrift

\* the pointer moves with button 1 down, by a step of D away from the point
\* of the frame it went down on
DragMotion(D, x0, drift) ==
    \E w \in FrameWindows \cap MotionWindows :
      \E d \in D :
        /\ Button1 \in buttons
        /\ process_motion_notify(w, grasped_x + d[1], grasped_y + d[2], TRUE)
        /\ NearColumn(xframe', x0, drift)
        /\ UNCHANGED <<buttons, grab, history>>

\* the pointer moves with button 1 down, by a step of D away from the point
\* of the frame it went down on; a frame is followed until it has left the
\* geometry it was made with
DragAcross(D) ==
    \E w \in FrameWindows \cap MotionWindows :
      \E d \in D :
        /\ Button1 \in buttons
        /\ NearStart(xframe)
        /\ process_motion_notify(w, grasped_x + d[1], grasped_y + d[2], TRUE)
        /\ UNCHANGED <<buttons, grab, history>>

\* button 1 goes down on a frame, at any point of the frame or up to m
\* pixels outside it
PressAnywhere(m) ==
    \E w \in FrameWindows \cap ButtonWindows :
      \E x \in (-m)..(xframe[w].width + m - 1), y \in (-m)..(xframe[w].height + m - 1) :
        /\ Button1 \notin buttons
        /\ process_button_press(Button1, w, x, y)
        /\ ArraysFit(all_frames', frames_z_order')
        /\ buttons' = buttons \cup {Button1}
        /\ grab' = GrabAfter(xframe', w)
        /\ drag' = [phase |-> "held", frame |-> w]
        /\ UNCHANGED <<watch, osvars, queue, drained>>

\* points of the frame window w: K columns counted from its right edge,
\* R rows counted from its top
GridPoints(w, K, R) == {<<xframe[w].width - k, y>> : k \in K, y \in R}

\* the pointer moves with no button down over a frame, to a point of the grid
HoverGrid(K, R) ==
    \E w \in FrameWindows \cap MotionWindows :
      \E pt \in GridPoints(w, K, R) :
        /\ buttons = {}
        /\ process_motion_notify(w, pt[1], pt[2], FALSE)
        /\ UNCHANGED <<buttons, grab, history>>

\* button 1 goes down on a frame, at a point of the grid
PressGrid(K, R) ==
    \E w \in FrameWindows \cap ButtonWindows :
      \E pt \in GridPoints(w, K, R) :
        /\ Button1 \notin buttons
        /\ process_button_press(Button1, w, pt[1], pt[2])
        /\ ArraysFit(all_frames', frames_z_order')
        /\ buttons' = buttons \cup {Button1}
        /\ grab' = GrabAfter(xframe', w)
        /\ drag' = [phase |-> "held", frame |-> w]
        /\ UNCHANGED <<watch, osvars, queue, drained>>

\* button 1 goes down on the root window, at a point (x, y) of the screen
PressRoot(X, Y) ==
    \E x \in X, y \in Y :
        /\ Button1 \notin buttons
        /\ Root \in ButtonWindows
        /\ process_button_press(Button1, Root, x, y)
        /\ buttons' = buttons \cup {Button1}
        /\ grab' = Root
        /\ UNCHANGED history

\* a release of button 1 over the open popup menu that launches a command
ReleaseOverExecItem(Q) ==
    \E w \in {Root, TaskbarWindow} \cap ButtonWindows :
      \E pt \in ReleasePoints(w, Q) :
        /\ Button1 \in buttons
        /\ execute_begin(w, pt[1], pt[2])
        /\ buttons' = buttons \ {Button1}
        /\ grab' = IF buttons' = {} THEN NoWindow ELSE grab
        /\ drag' = DragAfterRelease
        /\ UNCHANGED <<watch, config, old, pipe, queue, drained>>

\* the steps inside execute, and those of the processes it forks
Execute ==
    /\ \/ do_fork
       \/ waitpid
    /\ UNCHANGED <<running, heap, allocated, all_frames, frames_z_order, graspvars,
                   popup_menu, clock_x, xvars, last, drag, watch, queue, drained, config,
                   old, pipe>>

ForkChild ==
    /\ fork_child
    /\ UNCHANGED <<running, heap, allocated, all_frames, frames_z_order, graspvars,
                   popup_menu, clock_x, xvars, last, drag, watch, queue, drained, config,
                   old, pipe>>

CommandExits ==
    /\ command_exits
    /\ UNCHANGED <<running, heap, allocated, all_frames, frames_z_order, graspvars,
                   popup_menu, clock_x, xvars, last, drag, watch, queue, drained, config,
                   old, pipe>>

\* a client asks for a new geometry of its window: the bits of a mask of M
\* and the values of a request of V
ConfigureRequest(C, M, V) ==
    \E w \in C, value_mask \in M, e \in V :
        /\ process_configure_request(w, value_mask, e)
        /\ UNCHANGED history

\* the same while no button is held
ConfigureAtRest(C, M, V) == buttons = {} /\ ConfigureRequest(C, M, V)

(***************************************************************************)
(* The event queue.  The X server appends the events of the pointer; the   *)
(* main loop reads the oldest event and dispatches it.                     *)
(***************************************************************************)
\* an event of the pointer; x, y are e->x, e->y for a press and a motion on
\* a frame, e->x_root, e->y_root for a release and a motion on the root
PointerEvent(type, w, pt, button1) ==
    [type |-> type, window |-> w, x |-> pt[1], y |-> pt[2], button1 |-> button1]

QueueMotion(W, P, Q) ==
    \E w \in W \cap MotionWindows :
      \E pt \in (IF w \in FrameWindows
                 THEN {FramePoint(n, xframe[w].width, xframe[w].height) : n \in P}
                 ELSE Q) :
        /\ pc = "loop"
        /\ Len(queue) < MaxQueue
        /\ queue' = Append(queue, PointerEvent("MotionNotify", w, pt, Button1 \in buttons))
        /\ UNCHANGED <<wmvars, xvars, last, drag, watch, osvars, drained>>

QueuePress(W, P, T) ==
    \E w \in W \cap (ButtonWindows \ Clients) :
      \E pt \in PressPoints(w, P, T) :
        /\ pc = "loop"
        /\ Len(queue) < MaxQueue
        /\ Button1 \notin buttons
        /\ queue' = Append(queue, PointerEvent("ButtonPress", w, pt, FALSE))
        /\ buttons' = buttons \cup {Button1}
        /\ grab' = w
        /\ UNCHANGED <<wmvars, xframe, xclient, next_window, last, drag, watch, osvars, drained>>

QueueRelease(Q) ==
    \E pt \in Q :
        /\ pc = "loop"
        /\ Len(queue) < MaxQueue
        /\ Button1 \in buttons
        /\ grab # NoWindow
        /\ queue' = Append(queue, PointerEvent("ButtonRelease", grab, pt, TRUE))
        /\ buttons' = buttons \ {Button1}
        /\ grab' = NoWindow
        /\ UNCHANGED <<wmvars, xframe, xclient, next_window, last, drag, watch, osvars, drained>>

\* the sequence q without its entry i
RemoveAt(q, i) == SubSeq(q, 1, i - 1) \o SubSeq(q, i + 1, Len(q))

\* XCheckTypedWindowEvent finds an event in q
IsTypedWindowEvent(ev, w, event_type) == ev.type = event_type /\ ev.window = w

\* get_last_event that checks the queue once
get_last_event_once(q, w, event_type, e) ==
    IF \E i \in 1..Len(q) : IsTypedWindowEvent(q[i], w, event_type)
    THEN LET i == CHOOSE i \in 1..Len(q) :
                    /\ IsTypedWindowEvent(q[i], w, event_type)
                    /\ \A j \in 1..(i - 1) : ~IsTypedWindowEvent(q[j], w, event_type)
         IN  [e |-> q[i], queue |-> RemoveAt(q, i)]
    ELSE [e |-> e, queue |-> q]

RECURSIVE get_last_event(_, _, _, _)
\* get_last_event: while XCheckTypedWindowEvent finds an event of the type
\* for the window, it takes the first such event out of the queue and into e
get_last_event(q, w, event_type, e) ==
    IF \E i \in 1..Len(q) : IsTypedWindowEvent(q[i], w, event_type)
    THEN LET i == CHOOSE i \in 1..Len(q) :
                    /\ IsTypedWindowEvent(q[i], w, event_type)
                    /\ \A j \in 1..(i - 1) : ~IsTypedWindowEvent(q[j], w, event_type)
         IN  get_last_event(RemoveAt(q, i), w, event_type, q[i])
    ELSE [e |-> e, queue |-> q]

\* handle_motion_notify for the event XNextEvent returned, with the rest of
\* the queue
handle_motion_notify(event, rest) ==
    LET r == get_last_event(rest, event.window, "MotionNotify", event)
    IN  /\ process_motion_notify(r.e.window, r.e.x, r.e.y, r.e.button1)
        /\ queue' = r.queue
        /\ drained' = Len(rest) - Len(r.queue)

\* the body of the main loop: XNextEvent and process_event
Dispatch ==
    /\ queue # <<>>
    /\ LET e == Head(queue)
       IN  CASE e.type = "MotionNotify" -> handle_motion_notify(e, Tail(queue))
             [] e.type = "ButtonPress" ->
                    /\ process_button_press(Button1, e.window, e.x, e.y)
                    /\ queue' = Tail(queue)
                    /\ UNCHANGED drained
             [] e.type = "ButtonRelease" ->
                    /\ process_button_release(e.window, e.x, e.y)
                    /\ queue' = Tail(queue)
                    /\ UNCHANGED drained
    /\ UNCHANGED <<buttons, grab, drag, watch, osvars>>

\* the pointer moves with button 1 down, by a step of D away from the named
\* point of P the button went down on; the event waits in the queue
QueueDrag(W, P, D) ==
    \E w \in W \cap MotionWindows :
      \E n \in P, d \in D :
        /\ pc = "loop"
        /\ Len(queue) < MaxQueue
        /\ Button1 \in buttons
        /\ LET pt == FramePoint(n, xframe[w].width, xframe[w].height)
           IN  queue' = Append(queue, PointerEvent("MotionNotify", w,
                                                   <<pt[1] + d[1], pt[2] + d[2]>>, TRUE))
        /\ UNCHANGED <<wmvars, xvars, last, drag, watch, osvars, drained>>

\* the main loop, followed while the frames stay near the geometry they were
\* made with
DispatchNear == Dispatch /\ NearStart(xframe')

\* the windows of the frames that have left the registry: frame windows the
\* window manager has destroyed, and children that are gone
RemovedWindows ==
    {w \in FrameWindows : w < FirstFrameWindow + next_window /\ ~xframe[w].exists}
    \cup {w \in Clients : /\ xclient[w].state = "dead"
                          /\ xclient[w].parent # Root
                          /\ search_frame_of_child(w) = NULL}

\* an event that was put in the queue while its window was there and is
\* taken from the queue after the window's frame has been removed; Q: where
\* the pointer was on the screen, relative to the popup menu's corner
StaleEvent(Q) ==
    \E w \in RemovedWindows :
      \E q \in Q :
        /\ \/ process_button_press(Button1, w, 1, 1)
           \/ process_button_release(w, popup_menu.x + q[1], popup_menu.y + q[2])
           \/ process_motion_notify(w, 1, 1, TRUE)
           \/ process_motion_notify(w, 1, 1, FALSE)
           \/ (w \in Clients /\ process_unmap_notify(w))
           \/ (w \in Clients /\ process_destroy_notify(w))
        /\ UNCHANGED <<buttons, grab, history>>

(***************************************************************************)
(* The window manager with two clients and every event.                    *)
(***************************************************************************)
Started == {1}
TwoClients == {1, 2}
\* client 2 advertises WM_DELETE_WINDOW, the others do not
PlainHints == [w \in Clients |-> Hints({w = 2}, {1})]
HoverPoints == {"body", "minimize", "close"}
TitlePoints == {"title"}
TaskbarXs == {20}
NoSteps == {<<0, 0>>}
PopupSpots == {<<3, TitleHeight + 3>>, <<-1, -1>>}
Watched == {"MapRequest", "DestroyNotify", "close_frame"}

Init == InitWith(Started, Watched)

Next ==
    \/ Startup(PlainHints)
    \/ EnterMainLoop
    \/ LeaveMainLoop
    \/ MapRequest(TwoClients, PlainHints)
    \/ ClientExit(TwoClients)
    \/ DestroyNotify(TwoClients)
    \/ UnmapNotify(TwoClients)
    \/ Expose
    \/ ButtonPress({Button1}, AllWindows, TitlePoints, TaskbarXs)
    \/ ButtonRelease(PopupSpots)
    \/ ButtonReleaseAtClient
    \/ MotionNotify(AllWindows, HoverPoints, NoSteps, PopupSpots)

Spec == Init /\ [][Next]_vars

(***************************************************************************)
(* The registry with three clients: the events that insert and remove      *)
(* Frames.                                                                 *)
(***************************************************************************)
StartedRegistry == {2}

InitRegistry == InitWith(StartedRegistry, Watched)

NextRegistry ==
    \/ Startup(PlainHints)
    \/ EnterMainLoop
    \/ MapRequest(Clients, PlainHints)
    \/ ClientVanishes(Clients)
    \/ ClientExit(Clients)
    \/ DestroyNotify(Clients)
    \/ UnmapNotify(Clients)

SpecRegistry == InitRegistry /\ [][NextRegistry]_vars

(***************************************************************************)
(* Closing frames: three clients that run when the window manager starts,  *)
(* the pointer on the frames, and the clients' ends.                       *)
(***************************************************************************)
StartedClose == {3}
ClosePoints == {"close"}

InitClose == InitWith(StartedClose, Watched)

NextClose ==
    \/ Startup(PlainHints)
    \/ EnterMainLoop
    \/ ClientExit(Clients)
    \/ DestroyNotify(Clients)
    \/ ButtonPress({Button1}, FrameWindows, ClosePoints, TaskbarXs)
    \/ ButtonRelease(PopupSpots)
    \/ MotionNotify(FrameWindows, ClosePoints, NoSteps, PopupSpots)

SpecClose == InitClose /\ [][NextClose]_vars

(***************************************************************************)
(* Grasps: two clients, presses on the title bar and on the east edge,     *)
(* and the pointer that moves with button 1 down.                          *)
(***************************************************************************)
\* client 1 resizes by pixels, client 2 in steps of 3
GraspHints == [w \in Clients |-> Hints({FALSE}, IF w = 1 THEN {1} ELSE {3})]
GraspPoints == {"title", "east"}
BodyPoints == {"body"}
Steps == {<<5, 4>>}
Outside == {<<-1, -1>>}
WatchedGrasp == {"MotionNotify", "ButtonRelease", "release_frame", "grasp_frame"}

InitGrasp == InitWith(Started, WatchedGrasp)

NextGrasp ==
    \/ Startup(GraspHints)
    \/ EnterMainLoop
    \/ MapRequest(TwoClients, GraspHints)
    \/ ClientExit(TwoClients)
    \/ DestroyNotify(TwoClients)
    \/ ButtonPress({Button1}, FrameWindows, GraspPoints, TaskbarXs)
    \/ ButtonRelease(Outside)
    \/ MotionNotify(FrameWindows, BodyPoints, Steps, Outside)

SpecGrasp == InitGrasp /\ [][NextGrasp]_vars

(***************************************************************************)
(* Resizes: one client, presses in the eight zones of the border, and the  *)
(* pointer that moves with button 1 down.  The client's WM_NORMAL_HINTS    *)
(* carry the increment it likes.                                           *)
(***************************************************************************)
ResizeHints == [w \in Clients |-> Hints({FALSE}, {1, 3, -3, 0})]
ZonePoints == {"north", "north_east", "east", "south_east", "south", "south_west",
               "west", "north_west"}
ResizeSteps == {<<5, 4>>, <<-5, -4>>}

InitResize == InitWith(Started, WatchedGrasp)

NextResize ==
    \/ Startup(ResizeHints)
    \/ EnterMainLoop
    \/ ButtonPress({Button1}, FrameWindows, ZonePoints, TaskbarXs)
    \/ ButtonRelease(Outside)
    \/ MotionNotify(FrameWindows, BodyPoints, ResizeSteps, Outside)

SpecResize == InitResize /\ [][NextResize]_vars

(***************************************************************************)
(* A drag of the west edge: one client whose frame is made at x = 47, so   *)
(* that a press 2 pixels inside the frame has the pointer at x = 50 of the *)
(* screen, and steps of 20 pixels to the left and to the right.            *)
(***************************************************************************)
WestHints ==
    [w \in Clients |->
        {[x |-> 47, y |-> ClientY, width |-> ClientWidth, height |-> ClientHeight,
          wm_delete_window |-> FALSE, width_inc |-> 1, height_inc |-> 1,
          title |-> "title"]}]
WestPoints == {"west", "south_west", "title"}
WestSteps == {<<-20, 0>>, <<20, 0>>, <<0, 5>>}

InitWest == InitWith(Started, WatchedGrasp)

NextWest ==
    \/ Startup(WestHints)
    \/ EnterMainLoop
    \/ ButtonPress({Button1}, FrameWindows, WestPoints, TaskbarXs)
    \/ ButtonRelease(Outside)
    \/ DragMotion(WestSteps, 47, 60)

SpecWest == InitWest /\ [][NextWest]_vars

(***************************************************************************)
(* Edges: one client, presses in the eight zones of the border, and a      *)
(* pointer that moves with button 1 down, by a few pixels or across the    *)
(* whole frame.                                                            *)
(***************************************************************************)
EdgeSteps ==
    ResizeSteps \cup {<<ClientWidth + 20, 0>>, <<0, ClientHeight + 30>>,
                      <<-(ClientWidth + 20), -(ClientHeight + 30)>>}

InitEdges == InitWith(Started, WatchedGrasp)

NextEdges ==
    \/ Startup(ResizeHints)
    \/ EnterMainLoop
    \/ ButtonPress({Button1}, FrameWindows, ZonePoints, TaskbarXs)
    \/ ButtonRelease(Outside)
    \/ DragAcross(EdgeSteps)

SpecEdges == InitEdges /\ [][NextEdges]_vars

(***************************************************************************)
(* Zones: one client whose frame is as small as two corners, a little      *)
(* larger, or smaller than that, and a press at every point of the frame   *)
(* and around it.                                                          *)
(***************************************************************************)
ZoneHints ==
    [w \in Clients |->
        {[x |-> ClientX, y |-> ClientY, width |-> cw, height |-> ch,
          wm_delete_window |-> FALSE, width_inc |-> 1, height_inc |-> 1,
          title |-> "title"]
           : cw \in {2 * ResizableCornerSize - compute_frame_width,
                     2 * ResizableCornerSize - compute_frame_width + 3,
                     ResizableCornerSize},
             ch \in {2 * ResizableCornerSize - compute_frame_height,
                     2 * ResizableCornerSize - compute_frame_height + 5}}]

InitZones == InitWith(Started, WatchedGrasp)

NextZones ==
    \/ Startup(ZoneHints)
    \/ EnterMainLoop
    \/ PressAnywhere(2)

SpecZones == InitZones /\ [][NextZones]_vars

(***************************************************************************)
(* The popup menu: a configuration with the short menu or with a menu of   *)
(* eight items, and presses on the root window and on the taskbar.         *)
(***************************************************************************)
TallMenu == [i \in 1..8 |-> IF i = 8 THEN "MENU_ITEM_TYPE_EXIT" ELSE "MENU_ITEM_TYPE_EXEC"]
Menus == {MenuItems, TallMenu}
ScreenXs == {0, PopupWidth - 1, PopupWidth, RootWidth - PopupWidth,
             RootWidth - PopupWidth + 1, RootWidth - 1}
ScreenYs == {y \in 0..(RootHeight - 1) : y % 5 = 0 \/ y = RootHeight - 1}
TaskbarButtonXs == {2}

WatchedPopup == {"ButtonPress", "ButtonRelease"}

InitPopup == InitMenu(Started, WatchedPopup, Menus)

NextPopup ==
    \/ Startup(PlainHints)
    \/ EnterMainLoop
    \/ Expose
    \/ PressRoot(ScreenXs, ScreenYs)
    \/ ButtonPress({Button1}, {TaskbarWindow}, TitlePoints, TaskbarButtonXs)
    \/ ButtonRelease(Outside)

SpecPopup == InitPopup /\ [][NextPopup]_vars

(***************************************************************************)
(* The queue: one client, the pointer on its frame and on the root window, *)
(* and a main loop that reads the events one by one.                       *)
(***************************************************************************)
\* points of the screen: on the first item of the popup menu opened by a
\* press at (5, 5), on its second item, and outside
QueueSpots == {<<8, 9>>, <<8, TitleHeight + 9>>, <<-1, -1>>}
WatchedQueue == {"ButtonPress", "ButtonRelease", "MotionNotify"}

InitQueue == InitWith(Started, WatchedQueue)

NextQueue ==
    \/ Startup(PlainHints)
    \/ EnterMainLoop
    \/ LeaveMainLoop
    \/ QueueMotion({Root} \cup FrameWindows, HoverPoints, QueueSpots)
    \/ QueuePress({Root}, TitlePoints, TaskbarXs)
    \/ QueueRelease(QueueSpots)
    \/ Dispatch

SpecQueue == InitQueue /\ [][NextQueue]_vars

\* the test of while (wm->running) follows the handler's return at once
SpecQueueFair == SpecQueue /\ WF_vars(LeaveMainLoop)

(***************************************************************************)
(* The taskbar: one or two clients, the taskbar drawn, and presses along   *)
(* the window list.                                                        *)
(***************************************************************************)
ListXs == TaskbarHeight..(ClockX - PaddingSize - 1)
WatchedTaskbar == {"ButtonPress"}

InitTaskbar == InitWith(TwoClients, WatchedTaskbar)

NextTaskbar ==
    \/ Startup(PlainHints)
    \/ EnterMainLoop
    \/ Expose
    \/ UnmapNotify(TwoClients)
    \/ ClientExit(TwoClients)
    \/ DestroyNotify(TwoClients)
    \/ ButtonPress({Button1}, {TaskbarWindow}, TitlePoints, ListXs)
    \/ ButtonRelease(Outside)

SpecTaskbar == InitTaskbar /\ [][NextTaskbar]_vars

(***************************************************************************)
(* Startup: every output of the config tool of up to MaxStream bytes.       *)
(***************************************************************************)
Streams == UNION {[1..n -> Bytes] : n \in 0..MaxStream}
Outputs == {ConfigAt(input, status) : input \in Streams, status \in {0, 1}}

InitConfig == InitMain(Started, Watched, {MenuItems}, Outputs)

NextConfig ==
    \/ ReadConfig
    \/ Startup(PlainHints)
    \/ EnterMainLoop

SpecConfig == InitConfig /\ [][NextConfig]_vars

\* main runs: read_file's loop takes its next turn, and pclose returns
SpecConfigFair ==
    SpecConfig /\ WF_vars(read_config_read /\ UNCHANGED <<last, drag, watch, queue, drained, procs, old, pipe>>)
               /\ WF_vars(read_config_pclose /\ UNCHANGED <<last, drag, watch, queue, drained, procs, old, pipe>>)

(***************************************************************************)
(* X protocol errors while clients come and go.                            *)
(***************************************************************************)
InitErrors == InitWith(Started, Watched)

NextErrors ==
    \/ Startup(PlainHints)
    \/ EnterMainLoop
    \/ MapRequest(Clients, PlainHints)
    \/ ClientExit(Clients)
    \/ DestroyNotify(Clients)
    \/ UnmapNotify(Clients)
    \/ XError(BOOLEAN)

SpecErrors == InitErrors /\ [][NextErrors]_vars

(***************************************************************************)
(* Launching commands from the popup menu.                                 *)
(***************************************************************************)
ExecSpots == {<<3, 3>>}
PressSpots == {5, 40, 100}

InitExec == InitWith(Started, WatchedPopup)

NextExec ==
    \/ Startup(PlainHints)
    \/ EnterMainLoop
    \/ PressRoot(PressSpots, PressSpots)
    \/ ButtonRelease(Outside)
    \/ ReleaseOverExecItem(ExecSpots)
    \/ Execute
    \/ ForkChild
    \/ CommandExits

SpecExec == InitExec /\ [][NextExec]_vars

\* the window manager and the intermediate child run; nothing is assumed
\* of the commands
SpecExecFair == SpecExec /\ WF_vars(Execute) /\ WF_vars(ForkChild)

(***************************************************************************)
(* Geometry: one client that asks for new geometries, and drags that make  *)
(* its frame smaller than its decorations.                                 *)
(***************************************************************************)
ConfigureMasks ==
    {{"CWX", "CWY"}, {"CWWidth"}, {"CWX", "CWY", "CWWidth", "CWHeight", "CWBorderWidth"}}
ConfigureValues ==
    {[x |-> ClientX + 3, y |-> ClientY - 2, width |-> ClientWidth + 4,
      height |-> ClientHeight - 3, border_width |-> 2],
     [x |-> ClientX, y |-> ClientY, width |-> ClientWidth, height |-> ClientHeight,
      border_width |-> 0]}
ShrinkPoints == {"east", "south"}
ShrinkSteps == {<<-(ClientWidth + 5), 0>>, <<0, -(ClientHeight + 20)>>}
WatchedGeometry == {"MotionNotify", "ConfigureRequest", "MapRequest"}

InitGeometry == InitWith(Started, WatchedGeometry)

NextGeometry ==
    \/ Startup(PlainHints)
    \/ EnterMainLoop
    \/ UnmapNotify(Clients)
    \/ ConfigureAtRest(Clients, ConfigureMasks, ConfigureValues)
    \/ ButtonPress({Button1}, FrameWindows, ShrinkPoints, TaskbarXs)
    \/ ButtonRelease(Outside)
    \/ DragAcross(ShrinkSteps)

SpecGeometry == InitGeometry /\ [][NextGeometry]_vars

(***************************************************************************)
(* The control icons: the pointer hovers over the icons of a title bar and *)
(* button 1 goes down there.                                               *)
(***************************************************************************)
IconPoints == {"minimize", "maximize", "close", "body"}
WatchedIcons == {"ButtonPress", "grasp_frame", "close_frame", "unmap_frame"}

InitIcons == InitWith(TwoClients, WatchedIcons)

NextIcons ==
    \/ Startup(PlainHints)
    \/ EnterMainLoop
    \/ ClientExit(TwoClients)
    \/ DestroyNotify(TwoClients)
    \/ ButtonPress({Button1}, FrameWindows, IconPoints, TaskbarXs)
    \/ ButtonRelease(Outside)
    \/ MotionNotify(FrameWindows, IconPoints, NoSteps, Outside)

SpecIcons == InitIcons /\ [][NextIcons]_vars

(***************************************************************************)
(* Two buttons: presses and releases of button 1 and of button 3 on the    *)
(* root window and on a frame, and the pointer that moves with button 1    *)
(* down.                                                                   *)
(***************************************************************************)
WatchedButtons == {"ButtonPress", "ButtonRelease", "grasp_frame", "release_frame"}

InitButtons == InitWith(TwoClients, WatchedButtons)

NextButtons ==
    \/ Startup(PlainHints)
    \/ EnterMainLoop
    \/ ButtonPress({Button1, Button3}, {Root} \cup FrameWindows, GraspPoints, TaskbarXs)
    \/ ButtonRelease(Outside)
    \/ MotionNotify(FrameWindows, BodyPoints, Steps, Outside)

SpecButtons == InitButtons /\ [][NextButtons]_vars

(***************************************************************************)
(* Events for windows that are gone: two clients that run when the window  *)
(* manager starts, their ends, the pointer on the root and on the frames,  *)
(* and events that outlive their windows.                                  *)
(***************************************************************************)
StartedStale == {2}
MenuSpots == {<<3, 3>>, <<3, TitleHeight + 3>>, <<-1, -1>>}
WatchedStale == {"ButtonPress", "ButtonRelease", "MotionNotify", "grasp_frame"}

InitStale == InitWith(StartedStale, WatchedStale)

NextStale ==
    \/ Startup(PlainHints)
    \/ EnterMainLoop
    \/ ClientExit(Clients)
    \/ DestroyNotify(Clients)
    \/ ButtonPress({Button1}, {Root} \cup FrameWindows, TitlePoints, TaskbarXs)
    \/ ButtonRelease(MenuSpots)
    \/ StaleEvent(MenuSpots)

SpecStale == InitStale /\ [][NextStale]_vars

(***************************************************************************)
(* The menu and two buttons: presses of button 1 and of button 3 on the    *)
(* root window and on the taskbar, and releases over the place of the      *)
(* popup menu and outside it.                                              *)
(***************************************************************************)
MenuButtonXs == {2, 20}
WatchedMenu == {"ButtonPress", "ButtonRelease"}

InitMenuButtons == InitWith(Started, WatchedMenu)

NextMenuButtons ==
    \/ Startup(PlainHints)
    \/ EnterMainLoop
    \/ Expose
    \/ ButtonPress({Button1, Button3}, {Root, TaskbarWindow}, TitlePoints, MenuButtonXs)
    \/ ButtonRelease(MenuSpots)
    \/ MotionNotify({Root}, HoverPoints, NoSteps, MenuSpots)

SpecMenuButtons == InitMenuButtons /\ [][NextMenuButtons]_vars

(***************************************************************************)
(* The ends of the window list: presses on the taskbar at the first x of   *)
(* the list, just before the clock and at the clock's x.                   *)
(***************************************************************************)
ClockXs == {TaskbarHeight, ClockX - 1, ClockX}

InitClock == InitWith(TwoClients, WatchedTaskbar)

NextClock ==
    \/ Startup(PlainHints)
    \/ EnterMainLoop
    \/ Expose
    \/ UnmapNotify(TwoClients)
    \/ ClientExit(TwoClients)
    \/ DestroyNotify(TwoClients)
    \/ ButtonPress({Button1}, {TaskbarWindow}, TitlePoints, ClockXs)
    \/ ButtonRelease(Outside)

SpecClock == InitClock /\ [][NextClock]_vars

(***************************************************************************)
(* A drag through the queue: button 1 goes down on the title bar of a      *)
(* frame, the pointer moves, the button goes up, the pointer moves on, and *)
(* the main loop reads the events later.                                   *)
(***************************************************************************)
CoalescePoints == {"title", "close"}
WatchedCoalesce == {"MotionNotify", "grasp_frame", "release_frame"}

InitCoalesce == InitWith(Started, WatchedCoalesce)

NextCoalesce ==
    \/ Startup(PlainHints)
    \/ EnterMainLoop
    \/ QueuePress(FrameWindows, TitlePoints, TaskbarXs)
    \/ QueueDrag(FrameWindows, TitlePoints, Steps)
    \/ QueueMotion(FrameWindows, CoalescePoints, Outside)
    \/ QueueRelease(Outside)
    \/ DispatchNear

SpecCoalesce == InitCoalesce /\ [][NextCoalesce]_vars

(***************************************************************************)
(* Minimized windows: three clients that run when the window manager       *)
(* starts, the pointer over the minimize icon and the body of their        *)
(* frames, presses there and on the window list, and map-requests.         *)
(***************************************************************************)
MinimizePoints == {"minimize", "body"}
MinimizeXs == {x \in ListXs : x % 6 = 0}
WatchedMinimize == {"unmap_frame", "MapRequest", "ButtonPress"}

InitMinimize == InitWith({NClients}, WatchedMinimize)

NextMinimize ==
    \/ Startup(PlainHints)
    \/ EnterMainLoop
    \/ Expose
    \/ MapRequest(Clients, PlainHints)
    \/ ButtonPress({Button1}, {TaskbarWindow} \cup FrameWindows, MinimizePoints, MinimizeXs)
    \/ ButtonRelease(Outside)
    \/ MotionNotify(FrameWindows, MinimizePoints, NoSteps, Outside)

SpecMinimize == InitMinimize /\ [][NextMinimize]_vars

(***************************************************************************)
(* Hovering and pressing: one client; the pointer moves with no button     *)
(* down to points of the right part of its frame, in the rows of the       *)
(* border, of the title bar and below, and button 1 goes down there.       *)
(***************************************************************************)
HoverColumns == {k \in 1..(3 * TitleHeight + FrameSize + 3) : k % 3 = 1}
HoverRows == {0, FrameSize - 1, FrameSize, FrameSize + 2, FrameSize + TitleHeight,
              FrameSize + TitleHeight + 1, 50}
WatchedHover == {"grasp_frame", "close_frame", "unmap_frame"}

InitHover == InitWith(Started, WatchedHover)

NextHover ==
    \/ Startup(PlainHints)
    \/ EnterMainLoop
    \/ HoverGrid(HoverColumns, HoverRows)
    \/ PressGrid(HoverColumns, HoverRows)
    \/ ButtonRelease(Outside)

SpecHover == InitHover /\ [][NextHover]_vars

(***************************************************************************)
(* The earlier version (src/src/main.c).  old holds its state: the list    *)
(* of Frames (newest first), the grasp, its X session (frame windows,      *)
(* clients, the pointer's button and grab), the events that wait in the    *)
(* connection, and whether an X error is on its way.  error_handler of     *)
(* this version aborts.  The events followed are those of the frame        *)
(* windows.                                                                *)
(***************************************************************************)
\* setup_window_manager: wm->title_height
OldTitleHeight == 16
\* close_icon_width and close_icon_height of the bitmap of the close icon
CloseIconWidth == 16
CloseIconHeight == 16

old_compute_frame_width == 2 * FrameSize

old_compute_frame_height == OldTitleHeight + 3 * FrameSize

\* the list search: the place of the first Frame of the child, NULL past the
\* sentinel
old_search_frame_of_child(frames, w) ==
    IF \E i \in 1..Len(frames) : frames[i].child = w
    THEN CHOOSE i \in 1..Len(frames) :
            frames[i].child = w /\ \A j \in 1..(i - 1) : frames[j].child # w
    ELSE NULL

old_search_frame(frames, w) ==
    IF \E i \in 1..Len(frames) : frames[i].window = w
    THEN CHOOSE i \in 1..Len(frames) :
            frames[i].window = w /\ \A j \in 1..(i - 1) : frames[j].window # w
    ELSE NULL

\* an event in the connection: window is xany.window (e->event of a
\* DestroyNotify and of an UnmapNotify), target the window that was
\* destroyed or unmapped
OldEvent(type, w, target, x, y, x_root, y_root, button1) ==
    [type |-> type, window |-> w, target |-> target, x |-> x, y |-> y,
     x_root |-> x_root, y_root |-> y_root, button1 |-> button1]

\* the events a frame window with SubstructureNotifyMask gets when the
\* window inside it is destroyed
ChildGone(w, child) ==
    << OldEvent("UnmapNotify", w, child, 0, 0, 0, 0, FALSE),
       OldEvent("DestroyNotify", w, child, 0, 0, 0, 0, FALSE) >>

\* wm_main before the loop, with no toplevel window yet
OldEmpty ==
    [pc |-> "loop", frames |-> <<>>,
     grasped_position |-> GP_NONE, grasped_frame |-> Indeterminate,
     grasped_x |-> Indeterminate, grasped_y |-> Indeterminate,
     xframe |-> [w \in FrameWindows |-> NoFrameWindow],
     xclient |-> [w \in Clients |-> UnbornClient],
     next_window |-> FirstFrameWindow,
     queue |-> <<>>, button1 |-> FALSE, grab |-> NoWindow, x_error |-> FALSE]

\* a client creates and maps its top-level window
OldToplevel(o, w) ==
    [o EXCEPT !.xclient[w] =
        [state |-> "alive", parent |-> Root, mapped |-> TRUE,
         x |-> ClientX, y |-> ClientY, width |-> ClientWidth,
         height |-> ClientHeight, border_width |-> ClientBorderSize]]

\* reparent_window with create_frame and insert_frame; wm_delete_window is
\* what read_protocols finds in the client's WM_PROTOCOLS
old_reparent_window(o, w, wm_delete_window) ==
    IF o.xclient[w].state # "alive" THEN o
    ELSE LET wa == o.xclient[w]
             parent == o.next_window
             frame == [window |-> parent, child |-> w,
                       wm_delete_window |-> wm_delete_window,
                       close_icon |-> "active_close_icon"]
         IN  [o EXCEPT
                !.frames = <<frame>> \o @,
                !.next_window = @ + 1,
                !.xframe[parent] =
                    [exists |-> TRUE, mapped |-> TRUE, x |-> wa.x, y |-> wa.y,
                     width |-> wa.width + old_compute_frame_width,
                     height |-> wa.height + old_compute_frame_height],
                !.xclient[w] =
                    [wa EXCEPT !.parent = parent, !.mapped = TRUE,
                               !.x = FrameSize,
                               !.y = 2 * FrameSize + OldTitleHeight,
                               !.border_width = 0]]

\* destroy_frame of the Frame at place i: free_frame takes it out of the
\* list, XDestroyWindow destroys its window and what is inside it
old_destroy_frame(o, i) ==
    LET w == o.frames[i].window
    IN  [o EXCEPT
           !.frames = RemoveAt(@, i),
           !.xframe = XDestroyWindowF(@, w),
           !.xclient = [c \in Clients |->
                          IF @[c].parent = w THEN KilledClient(@, c)[c] ELSE @[c]],
           !.grab = IF @ = w THEN NoWindow ELSE @]

\* process_destroy_notify: search_frame(e->event)
old_process_destroy_notify(o, e) ==
    LET frame == old_search_frame(o.frames, e.window)
    IN  IF frame = NULL THEN o ELSE old_destroy_frame(o, frame)

\* process_unmap_notify: search_frame_of_child(e->window)
old_process_unmap_notify(o, e) ==
    LET frame == old_search_frame_of_child(o.frames, e.target)
    IN  IF frame = NULL THEN o
        ELSE LET w == o.frames[frame].window
             IN  [o EXCEPT !.xframe = XUnmapWindowF(@, w),
                           !.grab = IF @ = w THEN NoWindow ELSE @]

\* close_frame of the Frame at place i.  XKillClient of a client that is
\* gone and XSendEvent to a window that is gone raise an X error.
old_close_frame(o, i) ==
    LET child == o.frames[i].child
        alive == o.xclient[child].state = "alive"
    IN  IF ~o.frames[i].wm_delete_window
        THEN old_destroy_frame(
                 [o EXCEPT !.xclient = KilledClient(@, child),
                           !.queue = IF alive
                                     THEN @ \o ChildGone(o.frames[i].window, child)
                                     ELSE @,
                           !.x_error = @ \/ ~alive], i)
        ELSE [o EXCEPT !.x_error = @ \/ ~alive]

\* is_on_close_icon, with the width XGetWindowAttributes answers
old_is_on_close_icon(width, x, y) ==
    LET close_x == width - FrameSize - CloseIconWidth
        close_y == BorderSize + FrameSize
    IN  is_region_inside(close_x, close_y, CloseIconWidth, CloseIconHeight, x, y)

\* detect_frame_position of this version: the same regions as the later one
old_detect_frame_position(width, height, x, y) ==
    detect_frame_position(width, height, x, y)

\* assert(frame != NULL) fails: abort
AssertFails(o) == [o EXCEPT !.pc = "assert"]

\* error_handler: abort
XErrorAborts(o) == [o EXCEPT !.pc = "x_error"]

\* a request with a reply (XGetGeometry, XGetWindowAttributes) for window w
\* meets an X error: one that was on its way, or its own
ReplyIsError(o, w) ==
    \/ o.x_error
    \/ IF w \in Clients THEN o.xclient[w].state # "alive"
       ELSE ~FrameExists(o.xframe, w)

\* process_button_press for Button1 on a window other than the root
old_process_button_press(o, e) ==
    LET w == e.window
        of_child == old_search_frame_of_child(o.frames, w)
        frame == old_search_frame(o.frames, w)
    IN  IF of_child # NULL
        THEN [o EXCEPT !.x_error = @ \/ o.xclient[w].state # "alive"]
        ELSE IF frame = NULL THEN AssertFails(o)
        ELSE IF ReplyIsError(o, w) THEN XErrorAborts(o)
        ELSE IF old_is_on_close_icon(o.xframe[w].width, e.x, e.y)
            THEN old_close_frame(o, frame)
        ELSE LET child == o.frames[frame].child
                 focused == [o EXCEPT !.x_error = @ \/ o.xclient[child].state # "alive"]
             IN  IF ReplyIsError(focused, w) THEN XErrorAborts(focused)
                 ELSE [focused EXCEPT
                         !.grasped_position =
                             old_detect_frame_position(o.xframe[w].width,
                                                       o.xframe[w].height, e.x, e.y),
                         !.grasped_frame = w,
                         !.grasped_x = e.x,
                         !.grasped_y = e.y]

\* process_button_release for a window other than the root
old_process_button_release(o, e) == [o EXCEPT !.grasped_position = GP_NONE]

\* the switch of process_motion_notify: the geometry asked for the frame w,
\* resize_child, and what the case stores in grasped_x and grasped_y
old_resize(o, w, child, x, y, new_x, new_y) ==
    LET fa == o.xframe[w]
        pos == o.grasped_position
        east_width == x + (fa.width - o.grasped_x)
        south_height == y + (fa.height - o.grasped_y)
        west_width == fa.x + fa.width - new_x
        north_height == fa.y + fa.height - new_y
        g == CASE pos = GP_NORTH ->
                    [x |-> fa.x, y |-> new_y, width |-> fa.width, height |-> north_height,
                     grasped_x |-> o.grasped_x, grasped_y |-> o.grasped_y]
               [] pos = GP_NORTH_EAST ->
                    [x |-> fa.x, y |-> new_y, width |-> east_width, height |-> north_height,
                     grasped_x |-> x, grasped_y |-> o.grasped_y]
               [] pos = GP_EAST ->
                    [x |-> fa.x, y |-> fa.y, width |-> east_width, height |-> fa.height,
                     grasped_x |-> x, grasped_y |-> o.grasped_y]
               [] pos = GP_SOUTH_EAST ->
                    [x |-> fa.x, y |-> fa.y, width |-> east_width, height |-> south_height,
                     grasped_x |-> x, grasped_y |-> y]
               [] pos = GP_SOUTH ->
                    [x |-> fa.x, y |-> fa.y, width |-> fa.width, height |-> south_height,
                     grasped_x |-> o.grasped_x, grasped_y |-> y]
               [] pos = GP_SOUTH_WEST ->
                    [x |-> new_x, y |-> fa.y, width |-> west_width, height |-> south_height,
                     grasped_x |-> o.grasped_x, grasped_y |-> y]
               [] pos = GP_WEST ->
                    [x |-> new_x, y |-> fa.y, width |-> west_width, height |-> fa.height,
                     grasped_x |-> o.grasped_x, grasped_y |-> o.grasped_y]
               [] pos = GP_NORTH_WEST ->
                    [x |-> new_x, y |-> new_y, width |-> west_width, height |-> north_height,
                     grasped_x |-> o.grasped_x, grasped_y |-> o.grasped_y]
        child_width == g.width - old_compute_frame_width
        child_height == g.height - old_compute_frame_height
    IN  [o EXCEPT
           !.xframe = XMoveResizeWindowF(@, w, g.x, g.y, g.width, g.height),
           !.xclient = XResizeWindowC(@, child, child_width, child_height),
           !.x_error = \/ @
                       \/ Card16(g.width) = 0 \/ Card16(g.height) = 0
                       \/ Card16(child_width) = 0 \/ Card16(child_height) = 0,
           !.grasped_x = g.grasped_x,
           !.grasped_y = g.grasped_y]

\* process_motion_notify for a window other than the root
old_process_motion_notify(o, e) ==
    LET w == e.window
        frame == old_search_frame(o.frames, w)
        pos == o.grasped_position
        new_x == e.x_root - o.grasped_x - BorderSize
        new_y == e.y_root - o.grasped_y - BorderSize
    IN  IF ~e.button1
        THEN \* change_cursor, then change_close_icon
             IF ReplyIsError(o, w) THEN XErrorAborts(o)
             ELSE IF frame = NULL THEN AssertFails(o)
             ELSE [o EXCEPT !.frames[frame].close_icon =
                      IF old_is_on_close_icon(o.xframe[w].width, e.x, e.y)
                      THEN "active_close_icon" ELSE "inactive_close_icon"]
        ELSE IF pos = GP_NONE THEN o
        ELSE IF pos = GP_TITLE_BAR
            THEN [o EXCEPT !.xframe = XMoveWindowF(@, w, new_x, new_y),
                           !.x_error = @ \/ ~FrameExists(o.xframe, w)]
        ELSE IF ReplyIsError(o, w) THEN XErrorAborts(o)
        ELSE IF frame = NULL THEN AssertFails(o)
        ELSE IF ReplyIsError(o, o.frames[frame].child) THEN XErrorAborts(o)
        ELSE old_resize(o, w, o.frames[frame].child, e.x, e.y, new_x, new_y)

\* process_event, for the event XNextEvent returned and the rest of the
\* connection's queue
old_process_event(o, e, rest) ==
    CASE e.type = "ButtonPress" -> old_process_button_press([o EXCEPT !.queue = rest], e)
      [] e.type = "ButtonRelease" -> old_process_button_release([o EXCEPT !.queue = rest], e)
      [] e.type = "DestroyNotify" -> old_process_destroy_notify([o EXCEPT !.queue = rest], e)
      [] e.type = "UnmapNotify" -> old_process_unmap_notify([o EXCEPT !.queue = rest], e)
      [] e.type = "MotionNotify" ->
            LET r == get_last_event(rest, e.window, "MotionNotify", e)
            IN  old_process_motion_notify([o EXCEPT !.queue = r.queue], r.e)

\* named points of a frame window of the earlier version, in its own
\* coordinates
OldFramePoint(name, width, height) ==
    CASE name = "title" -> <<40, BorderSize + FrameSize + 2>>
      [] name = "close" -> <<width - FrameSize - 2, BorderSize + FrameSize + 2>>
      [] name = "east" -> <<width - 2, 50>>

OldPoints == {"title", "close", "east"}

\* the pointer event the server reports for the point pt of frame window w
OldPointerEvent(type, w, pt, button1) ==
    OldEvent(type, w, NoWindow, pt[1], pt[2],
             old.xframe[w].x + BorderSize + pt[1],
             old.xframe[w].y + BorderSize + pt[2], button1)

\* the frame windows the pointer's events are reported for: the window of
\* the grab while there is one
OldPointerWindows ==
    IF old.grab # NoWindow THEN {old.grab}
    ELSE {w \in FrameWindows : old.xframe[w].exists /\ old.xframe[w].mapped}

\* frames are followed while they stay near the geometry they were made with
OldNear(xf) ==
    \A f \in FrameWindows :
        xf[f].exists =>
            /\ Abs(xf[f].x - ClientX) <= MaxDrift
            /\ Abs(xf[f].y - ClientY) <= MaxDrift
            /\ Abs(xf[f].width - (ClientWidth + old_compute_frame_width)) <= MaxDrift
            /\ Abs(xf[f].height - (ClientHeight + old_compute_frame_height)) <= MaxDrift

\* wm_main at its loop: reparent_toplevels has framed the windows of C,
\* in order; those of D have WM_DELETE_WINDOW in their WM_PROTOCOLS
RECURSIVE OldReparentToplevels(_, _, _)
OldReparentToplevels(o, C, D) ==
    IF C = {} THEN o
    ELSE LET w == CHOOSE c \in C : \A d \in C : c <= d
         IN  OldReparentToplevels(old_reparent_window(OldToplevel(o, w), w, w \in D),
                                  C \ {w}, D)

OldClients == {1}

OldStarts == {OldReparentToplevels(OldEmpty, OldClients, D) : D \in SUBSET OldClients}

OldQueuePress(P) ==
    \E w \in OldPointerWindows, n \in P :
        /\ old.pc = "loop"
        /\ Len(old.queue) < MaxQueue
        /\ ~old.button1
        /\ LET pt == OldFramePoint(n, old.xframe[w].width, old.xframe[w].height)
           IN  old' = [old EXCEPT
                         !.queue = Append(@, OldPointerEvent("ButtonPress", w, pt, FALSE)),
                         !.button1 = TRUE,
                         !.grab = w]
        /\ UNCHANGED <<wmvars, xvars, last, drag, watch, queue, drained, config, procs, pipe>>

\* the pointer moves: over a named point of P with no button down, by a
\* step of D away from one with Button1 down
OldQueueMotion(P, D) ==
    \E w \in OldPointerWindows, n \in P, d \in D :
        /\ old.pc = "loop"
        /\ Len(old.queue) < MaxQueue
        /\ LET pt == OldFramePoint(n, old.xframe[w].width, old.xframe[w].height)
               to == IF old.button1 THEN <<pt[1] + d[1], pt[2] + d[2]>> ELSE pt
           IN  old' = [old EXCEPT
                         !.queue = Append(@, OldPointerEvent("MotionNotify", w, to,
                                                             old.button1))]
        /\ UNCHANGED <<wmvars, xvars, last, drag, watch, queue, drained, config, procs, pipe>>

OldQueueRelease(P) ==
    \E w \in OldPointerWindows, n \in P :
        /\ old.pc = "loop"
        /\ Len(old.queue) < MaxQueue
        /\ old.button1
        /\ LET pt == OldFramePoint(n, old.xframe[w].width, old.xframe[w].height)
           IN  old' = [old EXCEPT
                         !.queue = Append(@, OldPointerEvent("ButtonRelease", w, pt, TRUE)),
                         !.button1 = FALSE,
                         !.grab = NoWindow]
        /\ UNCHANGED <<wmvars, xvars, last, drag, watch, queue, drained, config, procs, pipe>>

\* a client exits (by itself, or in answer to WM_DELETE_WINDOW): the server
\* destroys its window and tells the frame window
OldClientExits ==
    \E c \in Clients :
        /\ old.pc = "loop"
        /\ Len(old.queue) < MaxQueue
        /\ old.xclient[c].state = "alive"
        /\ LET parent == old.xclient[c].parent
           IN  old' = [old EXCEPT
                         !.xclient = KilledClient(@, c),
                         !.queue = IF FrameExists(old.xframe, parent)
                                   THEN @ \o ChildGone(parent, c) ELSE @]
        /\ UNCHANGED <<wmvars, xvars, last, drag, watch, queue, drained, config, procs, pipe>>

\* the body of the main loop: wait_event, XNextEvent and process_event.  An
\* X error that is on its way may arrive when wait_event reads the
\* connection.
OldDispatch ==
    /\ old.pc = "loop"
    /\ old.queue # <<>>
    /\ \/ old.x_error /\ old' = XErrorAborts(old)
       \/ /\ old' = old_process_event(old, Head(old.queue), Tail(old.queue))
          /\ old'.pc = "loop" => OldNear(old'.xframe)
    /\ UNCHANGED <<wmvars, xvars, last, drag, watch, queue, drained, config, procs, pipe>>

(***************************************************************************)
(* The earlier version at its main loop, with one framed client.           *)
(***************************************************************************)
InitOld == InitAll(Started, Watched, {MenuItems}, {LoadedConfig}, OldStarts, {NoPipe})

NextOld ==
    \/ OldQueuePress(OldPoints)
    \/ OldQueueMotion(OldPoints, Steps)
    \/ OldQueueRelease(TitlePoints)
    \/ OldClientExits
    \/ OldDispatch

SpecOld == InitOld /\ [][NextOld]_vars

(***************************************************************************)
(* One buffer on its way through the pipe: write_file of __fawm_config__   *)
(* writes buf to its standard output, read_file of fawm reads Len(buf)     *)
(* bytes from the other end into dest.  pipe holds both loops: the bytes   *)
(* written so far, the place of the reader in them, and whether the tool   *)
(* has exited and closed its end.  The pipe has a reader as long as        *)
(* read_file runs, so that writing to it and reading from it do not fail.  *)
(***************************************************************************)
\* buffers of up to MaxBuf bytes are followed
MaxBuf == 3

\* fwrite with a return value that counts the bytes written
fwrite_counting_bytes(buf, nbytes, n) ==
    [items |-> n, bytes |-> SubSeq(buf, nbytes + 1, nbytes + n)]

\* fwrite(ptr, n, 1, fpout) with ptr = buf + nbytes: one item of n bytes.  It
\* returns the number of items written.
fwrite(buf, nbytes, n) ==
    [items |-> 1, bytes |-> SubSeq(buf, nbytes + 1, nbytes + n)]

\* one turn of write_file's loop, with nbytes < size: the item is taken from
\* dest + nbytes and nbytes grows by fwrite's return value
write_file(buf, nbytes) ==
    LET r == fwrite(buf, nbytes, Len(buf) - nbytes)
    IN  [bytes |-> r.bytes, nbytes |-> nbytes + r.items]

\* write_file(buf, Len(buf), stdout) and read_file(dest, fpin, Len(buf))
\* before their first turns
PipeAt(buf) ==
    [pc |-> "run", buf |-> buf, wbytes |-> 0, wret |-> "running",
     stream |-> <<>>, closed |-> FALSE,
     dest |-> [i \in 1..Len(buf) |-> Indeterminate], rbytes |-> 0, pos |-> 0,
     rret |-> "running"]

Buffers == UNION {[1..n -> Bytes] : n \in 1..MaxBuf}

Pipes == {PipeAt(buf) : buf \in Buffers}

\* a turn of write_file's loop and, when it was the last, the return
write_file_turn ==
    /\ pipe.pc = "run"
    /\ pipe.wret = "running"
    /\ LET r == write_file(pipe.buf, pipe.wbytes)
       IN  pipe' = [pipe EXCEPT
                      !.stream = @ \o r.bytes,
                      !.wbytes = r.nbytes,
                      !.wret = IF r.nbytes < Len(pipe.buf) THEN "running"
                               ELSE IF r.nbytes = Len(pipe.buf) THEN "0" ELSE "-1"]
    /\ UNCHANGED <<wmvars, xvars, last, drag, watch, queue, drained, config, procs, old>>

\* the tool exits after write_file: its end of the pipe is closed
tool_exits ==
    /\ pipe.pc = "run"
    /\ pipe.wret # "running"
    /\ ~pipe.closed
    /\ pipe' = [pipe EXCEPT !.closed = TRUE]
    /\ UNCHANGED <<wmvars, xvars, last, drag, watch, queue, drained, config, procs, old>>

\* a turn of read_file's loop and, when it was the last, the return.  fread
\* waits until the pipe holds the item or the writer's end is closed.
read_file_turn ==
    /\ pipe.pc = "run"
    /\ pipe.rret = "running"
    /\ \/ Len(pipe.stream) - pipe.pos >= Len(pipe.dest) - pipe.rbytes
       \/ pipe.closed
    /\ LET r == read_file(pipe.dest, pipe.rbytes, pipe.stream, pipe.pos)
       IN  pipe' = [pipe EXCEPT
                      !.dest = r.dest,
                      !.rbytes = r.nbytes,
                      !.pos = r.pos,
                      !.rret = IF r.nbytes < Len(pipe.dest) THEN "running"
                               ELSE IF r.nbytes = Len(pipe.dest) THEN "True" ELSE "False"]
    /\ UNCHANGED <<wmvars, xvars, last, drag, watch, queue, drained, config, procs, old>>

InitPipe == InitAll(Started, Watched, {MenuItems}, {LoadedConfig}, {NoOld}, Pipes)

NextPipe ==
    \/ write_file_turn
    \/ tool_exits
    \/ read_file_turn

SpecPipe == InitPipe /\ [][NextPipe]_vars

\* both processes run: each loop takes its next turn, and the tool exits
\* when its main returns
SpecPipeFair ==
    SpecPipe /\ WF_vars(write_file_turn) /\ WF_vars(tool_exits) /\ WF_vars(read_file_turn)

(***************************************************************************)
(* The claims.                                                             *)
(***************************************************************************)
\* the Frames that have been inserted and not yet removed: create_frame has
\* allocated them and free_frame has not freed them
LiveFrames == allocated

\* the Frames the two orderings of the registry hold
RegistryFrames == (Range(all_frames) \cup Range(frames_z_order)) \cap LiveFrames

\* client w is the child of a Frame
HasFrame(w) == \E f \in LiveFrames : heap[f].child = w

\* C1: search_frame(w) and search_frame_of_child(c) return the Frame whose
\* frame window is w (whose child is c) exactly when that Frame has been
\* inserted and not yet removed, and NULL in every other case.
C1_SearchFindsExactlyLiveFrames ==
    /\ \A f \in LiveFrames :
         /\ search_frame(heap[f].window) = f
         /\ search_frame_of_child(heap[f].child) = f
    /\ \A w \in FrameWindows :
         search_frame(w) # NULL => search_frame(w) \in LiveFrames
    /\ \A c \in Clients :
         search_frame_of_child(c) # NULL => search_frame_of_child(c) \in LiveFrames

\* C3: no two Frames of the registry have the same child window, and no two
\* have the same frame window.
C3_NoSharedWindows ==
    \A f, g \in RegistryFrames :
        f # g => heap[f].child # heap[g].child /\ heap[f].window # heap[g].window

\* C10: a map-request for a window that already is the child of a Frame
\* creates no Frame: all_frames and the heap stay as they are, no window is
\* created, and the existing frame is mapped, raised and made the head of
\* frames_z_order.
C10_MapRequestOfFramedChild ==
    [][\A w \in Clients :
         (HasFrame(w) /\ \E h \in PlainHints[w] : process_map_request(w, h)) =>
            /\ all_frames' = all_frames
            /\ heap' = heap /\ allocated' = allocated
            /\ next_window' = next_window
            /\ \E f \in LiveFrames :
                 /\ heap[f].child = w
                 /\ frames_z_order'[1] = f
                 /\ xframe'[heap[f].window].mapped
                 /\ <<"XRaiseWindow", heap[f].window>> \in Range(last'.reqs)]_vars

\* the first destroy-notify for client w has removed its Frame: the client
\* is gone, and so is the frame window it was reparented into
FrameRemoved(w) ==
    /\ xclient[w].state = "dead"
    /\ xclient[w].parent \in FrameWindows
    /\ ~xframe[xclient[w].parent].exists

\* C7: a second destroy-notify for a child whose Frame the first one removed
\* changes nothing: the lookup returns NULL, the registry and the heap are
\* unchanged, nothing is freed and no window is destroyed.
C7_SecondDestroyNotifyIsNoOp ==
    [][\A w \in Clients :
         (FrameRemoved(w) /\ process_destroy_notify(w)) =>
            /\ search_frame_of_child(w) = NULL
            /\ UNCHANGED <<wmvars, xframe, xclient, next_window>>
            /\ last'.reqs = <<>>]_vars

\* C7 witness: the destroy-notify handled last was for a child whose Frame
\* had been removed before, and it made no request.
C7_Witness ==
    /\ last.op = "DestroyNotify"
    /\ last.reqs = <<>>
    /\ last.w \in Clients
    /\ FrameRemoved(last.w)

\* C2: all_frames and frames_z_order hold the same set of Frames.
C2_SameFrameSet == Range(all_frames) = Range(frames_z_order)

\* button 1 goes down on the frame window of Frame f while its status is
\* FOCUS_CLOSE: process_button_press calls close_frame(f)
ClosesFrame(f) ==
    /\ f \in Range(all_frames)
    /\ heap[f].status = FOCUS_CLOSE
    /\ heap[f].window \in FrameWindows
    /\ search_frame(heap[f].window) = f
    /\ \E pt \in PressPoints(heap[f].window, ClosePoints, TaskbarXs) :
         process_button_press(Button1, heap[f].window, pt[1], pt[2])

\* the event handled last was close_frame with XKillClient
ClosedByKill == last.op = "close_frame" /\ last.reqs[1][1] = "XKillClient"

\* C8, as stated: closing a frame whose child does not advertise
\* WM_DELETE_WINDOW removes the Frame from the registry at once, before the
\* destroy-notify for the child is processed.
C8_CloseRemovesFrameAtOnce ==
    ClosedByKill => search_frame(last.w) = NULL

\* C8, amended: closing a frame whose child does not advertise
\* WM_DELETE_WINDOW sends one kill request for the child and removes
\* nothing: both orderings, the heap and the frame windows are as before,
\* and the Frame is still registered when the handler returns.
C8_CloseKillsAndKeepsFrame ==
    [][\A f \in Slots :
         (~heap[f].wm_delete_window /\ ClosesFrame(f)) =>
            /\ last'.reqs = << <<"XKillClient", heap[f].child>> >>
            /\ all_frames' = all_frames
            /\ frames_z_order' = frames_z_order
            /\ heap' = heap /\ allocated' = allocated
            /\ xframe' = xframe
            /\ f \in Range(all_frames') /\ f \in allocated']_vars

\* C8 witness: a frame has been closed with XKillClient, its child is gone,
\* and its Frame is still found in the registry.
C8_Witness ==
    /\ ClosedByKill
    /\ search_frame(last.w) # NULL
    /\ xclient[heap[search_frame(last.w)].child].state = "dead"

\* the event handled last was close_frame with the client message for c
ClosedByMessage(c) ==
    last.op = "close_frame" /\ last.reqs = << <<"XSendEvent", c>> >>

\* C9: closing a frame whose child advertises WM_DELETE_WINDOW sends one
\* client message and leaves the Frame registered, and the Frame stays in
\* the registry until a destroy-notify for that child is processed.
C9_ClosedByMessageStaysUntilDestroyNotify ==
    [][/\ \A f \in Slots :
            (heap[f].wm_delete_window /\ ClosesFrame(f)) =>
               /\ last'.reqs = << <<"XSendEvent", heap[f].child>> >>
               /\ all_frames' = all_frames /\ frames_z_order' = frames_z_order
       /\ \A c \in Clients :
            ClosedByMessage(c) =>
               /\ search_frame_of_child(c) # NULL
               /\ process_destroy_notify(c) \/ (search_frame_of_child(c))' # NULL]_vars

\* the position and size of every frame window and the size of every child
Geometry(xf, xc) ==
    <<[f \in FrameWindows |-> <<xf[f].x, xf[f].y, xf[f].width, xf[f].height>>],
      [c \in Clients |-> <<xc[c].width, xc[c].height>>]>>

\* what a step may not change of the Frames other than the one of window w:
\* geometry, title, status, and the two orderings
OthersOf(w, hp, xf, xc, a, z) ==
    <<[f \in FrameWindows \ {w} |-> xf[f]],
      [c \in {d \in Clients : xc[d].parent # w} |-> <<xc[c].width, xc[c].height>>],
      [s \in {t \in Slots : hp[t].window # w} |-> hp[s]],
      a, z>>

\* a motion event for a frame window is processed
MotionStep == MotionNotify(FrameWindows, BodyPoints, ResizeSteps, Outside)

\* C4: from a button-1 press on frame F until the next button release,
\* motion events change the geometry of F and of its child only; every other
\* Frame keeps its geometry, title, status and place in the registry.
C4_MotionChangesGraspedFrameOnly ==
    [][(drag.phase = "held" /\ MotionStep) =>
          OthersOf(drag.frame, heap', xframe', xclient', all_frames', frames_z_order')
            = OthersOf(drag.frame, heap, xframe, xclient, all_frames, frames_z_order)]_vars

\* C5: once the button release that ends a grasp has been processed,
\* grasped_position is GP_NONE, and motion events leave the position and
\* size of every frame and child as they are until button 1 goes down on a
\* frame again.
C5_ReleaseEndsGrasp ==
    [][/\ drag'.phase = "ended" => grasped_position' = GP_NONE
       /\ (drag.phase = "ended" /\ MotionStep) =>
             Geometry(xframe', xclient') = Geometry(xframe, xclient)]_vars

\* applied is a multiple of inc, no larger than raw in magnitude, at most
\* inc - 1 away from it, and equal to it when inc is 1
Quantized(applied, raw, inc) ==
    /\ \E k \in -(Abs(raw) + 1)..(Abs(raw) + 1) : applied = k * inc
    /\ Abs(applied) <= Abs(raw)
    /\ Abs(raw - applied) <= inc - 1
    /\ inc = 1 => applied = raw

\* C6: every resize motion event, in each of the 8 zones, changes the
\* frame's width (height) by a multiple of width_inc (height_inc) that is
\* no larger than the pointer's delta in magnitude and at most inc - 1 away
\* from it; with inc = 1 the change is the pointer's delta.
C6_ResizeFollowsIncrements ==
    [][\A w \in FrameWindows :
         (/\ MotionStep
          /\ last'.op = "MotionNotify" /\ last'.w = w
          /\ Button1 \in buttons
          /\ grasped_position \notin {GP_NONE, GP_TITLE_BAR}
          /\ search_frame(w) # NULL) =>
            LET pos == grasped_position
                frame == search_frame(w)
                req == last'.reqs[1]
                from_w == IF pos \in EastZones THEN grasped_width ELSE xframe[w].width
                from_h == IF pos \in SouthZones THEN grasped_height ELSE xframe[w].height
            IN  /\ pc' # "crashed"
                /\ pos \in (WestZones \cup EastZones) =>
                      Quantized(xframe'[w].width - from_w, req[5], heap[frame].width_inc)
                /\ pos \in (NorthZones \cup SouthZones) =>
                      Quantized(xframe'[w].height - from_h, req[6], heap[frame].height_inc)]_vars

\* C11: a map-request for a window whose attributes cannot be read (the
\* window is gone) is handled to the end: the handler returns to the
\* dispatch loop, creates no Frame and no window, and leaves the registry
\* as it is.
C11_MapRequestOfVanishedWindowReturns ==
    [][\A w \in Clients :
         (/\ xclient[w].state = "dead"
          /\ search_frame_of_child(w) = NULL
          /\ \E h \in PlainHints[w] : process_map_request(w, h)) =>
            /\ pc' = "loop"
            /\ allocated' = allocated /\ heap' = heap
            /\ next_window' = next_window
            /\ all_frames' = all_frames
            /\ frames_z_order' = frames_z_order]_vars

\* no request of the handler launches a command
NoCommand(e) == \A i \in 1..Len(e.reqs) : e.reqs[i][1] # "execute"

\* C12: once a Frame has been removed from the registry, an event whose
\* window is that Frame's frame window or child window is ignored: the
\* registry, the grasp state, the popup state and the running flag stay as
\* they are, no command is executed and the process goes on.
C12_EventsOfRemovedFramesAreIgnored ==
    [][StaleEvent(MenuSpots) =>
         /\ UNCHANGED <<heap, allocated, all_frames, frames_z_order>>
         /\ UNCHANGED graspvars
         /\ UNCHANGED <<popup_menu, running>>
         /\ NoCommand(last')
         /\ pc' = "loop"]_vars

\* a top-level window that has no Frame is given one: by a map-request, or
\* when the window manager starts
FramesWindow(w) ==
    /\ w \in Clients
    /\ search_frame_of_child(w) = NULL
    /\ xclient[w].state # "dead"
    /\ xclient'[w].parent \in FrameWindows
    /\ ~xframe[xclient'[w].parent].exists
    /\ xframe'[xclient'[w].parent].exists

\* C13 as stated: the frame window is W + 2*frame_size wide and
\* H + title_height + 3*frame_size tall.
C13_FrameSizeWithoutClientBorders ==
    [][\A w \in Clients :
         FramesWindow(w) =>
           LET f == xframe'[xclient'[w].parent]
               c == xclient'[w]
           IN  /\ f.width = c.width + 2 * FrameSize
               /\ f.height = c.height + TitleHeight + 3 * FrameSize
               /\ c.x = FrameSize
               /\ c.y = 2 * FrameSize + TitleHeight]_vars

\* C13, amended: mapping an unframed top-level window of size W x H creates
\* a frame window W + 2*(frame_size + client_border_size) wide and
\* H + title_height + 3*frame_size + 2*client_border_size tall, and the
\* child, its border client_border_size wide, is reparented into it at
\* offset (frame_size, 2*frame_size + title_height).
C13_FrameSizeAndChildOffset ==
    [][\A w \in Clients :
         FramesWindow(w) =>
           LET f == xframe'[xclient'[w].parent]
               c == xclient'[w]
           IN  /\ f.width = c.width + 2 * (FrameSize + ClientBorderSize)
               /\ f.height = c.height + TitleHeight + 3 * FrameSize + 2 * ClientBorderSize
               /\ c.border_width = ClientBorderSize
               /\ c.x = FrameSize
               /\ c.y = 2 * FrameSize + TitleHeight]_vars

\* a map-request has framed a window of size ClientWidth x ClientHeight
C13_Witness ==
    /\ last.op = "MapRequest"
    /\ last.w \in Clients
    /\ search_frame_of_child(last.w) # NULL
    /\ xclient[last.w].parent = heap[search_frame_of_child(last.w)].window
    /\ xframe[xclient[last.w].parent].exists
    /\ xclient[last.w].width = ClientWidth
    /\ Len(last.reqs) > 0 /\ last.reqs[1][1] = "XCreateSimpleWindow"

\* the frame w is grasped in the West zone, its width_inc is 1, it is where
\* it was when it was grasped, and the pointer moves 20 pixels to the left
\* of where it went down (from x = 50 to x = 30, for a frame at x = 47)
WestDragLeft(w) ==
    /\ drag = [phase |-> "held", frame |-> w]
    /\ grasped_position = GP_WEST
    /\ search_frame(w) # NULL
    /\ heap[search_frame(w)].width_inc = 1
    /\ xframe[w].width = grasped_width
    /\ process_motion_notify(w, grasped_x - 20, grasped_y, TRUE)

\* C14 as stated: the left edge moves right by 20, the width shrinks by 20
\* and the right edge stays.
C14_WestDragLeftShrinks ==
    [][\A w \in FrameWindows :
         WestDragLeft(w) =>
           /\ xframe'[w].x = xframe[w].x + 20
           /\ xframe'[w].width = xframe[w].width - 20
           /\ xframe'[w].x + xframe'[w].width = xframe[w].x + xframe[w].width]_vars

\* C14, amended: in a grasp in the West zone with width_inc = 1, when the
\* pointer was at x = 50 at grasp time and moves to x = 30, the frame's
\* left edge moves left by 20, the frame's width grows by 20, and the
\* frame's right edge is unchanged.
C14_WestDragLeftGrows ==
    [][\A w \in FrameWindows :
         WestDragLeft(w) =>
           /\ xframe'[w].x = xframe[w].x - 20
           /\ xframe'[w].width = xframe[w].width + 20
           /\ xframe'[w].x + xframe'[w].width = xframe[w].x + xframe[w].width
           /\ xframe'[w].y = xframe[w].y
           /\ xframe'[w].height = xframe[w].height]_vars

\* the pointer went down at x = 50 in the West zone and has moved to x = 30
C14_Witness ==
    \E w \in FrameWindows :
        /\ drag = [phase |-> "held", frame |-> w]
        /\ grasped_position = GP_WEST
        /\ xframe[w].exists
        /\ last.op = "MotionNotify" /\ last.w = w
        /\ xframe[w].width = grasped_width + 20
        /\ xframe[w].x + 20 + BorderSize + grasped_x = 50
        /\ xframe[w].x + BorderSize + grasped_x = 30

\* C15: every resize motion event keeps the edges opposite to the dragged
\* ones where they are: the right edge (x + width) in the West, North-West
\* and South-West zones, the bottom edge (y + height) in the North,
\* North-East and North-West zones, and x and y in the East, South-East and
\* South zones; for every size increment and every motion event of a grasp.
C15_ResizeKeepsOppositeEdges ==
    [][\A w \in FrameWindows :
         (/\ grasped_position \notin {GP_NONE, GP_TITLE_BAR}
          /\ drag = [phase |-> "held", frame |-> w]
          /\ search_frame(w) # NULL
          /\ \E d \in EdgeSteps :
                process_motion_notify(w, grasped_x + d[1], grasped_y + d[2], TRUE)) =>
            LET pos == grasped_position
                f == xframe[w]
                g == xframe'[w]
            IN  /\ pos \in WestZones => g.x + g.width = f.x + f.width
                /\ pos \in NorthZones => g.y + g.height = f.y + f.height
                /\ pos \in {GP_EAST, GP_SOUTH_EAST, GP_SOUTH} => g.x = f.x /\ g.y = f.y]_vars

\* the zones of a frame of the given size, as the claim describes them: the
\* border band is what lies within FrameSize of an edge, inside the frame;
\* a corner zone is the part of the band within ResizableCornerSize of both
\* edges of the corner (an L), an edge zone the rest of the band
ZoneOf(width, height, x, y) ==
    LET inside == 0 <= x /\ x < width /\ 0 <= y /\ y < height
        band == \/ x < FrameSize \/ width - FrameSize <= x
                \/ y < FrameSize \/ height - FrameSize <= y
        west == x < ResizableCornerSize
        east == width - ResizableCornerSize <= x
        north == y < ResizableCornerSize
        south == height - ResizableCornerSize <= y
    IN  IF ~inside THEN GP_NONE
        ELSE IF ~band THEN GP_TITLE_BAR
        ELSE IF north /\ west THEN GP_NORTH_WEST
        ELSE IF north /\ east THEN GP_NORTH_EAST
        ELSE IF south /\ east THEN GP_SOUTH_EAST
        ELSE IF south /\ west THEN GP_SOUTH_WEST
        ELSE IF y < FrameSize THEN GP_NORTH
        ELSE IF height - FrameSize <= y THEN GP_SOUTH
        ELSE IF x < FrameSize THEN GP_WEST
        ELSE GP_EAST

GraspedPositions ==
    {GP_NONE, GP_TITLE_BAR} \cup WestZones \cup EastZones \cup NorthZones \cup SouthZones

\* C16: detect_frame_position returns a zone for every point and every
\* frame size; for a frame at least 2*resizable_corner_size wide and tall,
\* a point of the border band is in exactly the resize zone the claim
\* describes (corners L-shaped with arms of resizable_corner_size), any
\* other point inside the frame is title bar, a point outside is none.
C16_ZonesPartitionTheBand ==
    last.op = "grasp_frame" =>
        /\ grasped_position \in GraspedPositions
        /\ (grasped_width >= 2 * ResizableCornerSize
              /\ grasped_height >= 2 * ResizableCornerSize) =>
             grasped_position = ZoneOf(grasped_width, grasped_height, grasped_x, grasped_y)

\* a press on the upright arm of the south-east corner of a frame that is
\* two corners wide
C16_Witness ==
    /\ last.op = "grasp_frame"
    /\ grasped_width = 2 * ResizableCornerSize
    /\ grasped_height >= 2 * ResizableCornerSize
    /\ grasped_x >= grasped_width - FrameSize
    /\ grasped_y = grasped_height - ResizableCornerSize
    /\ grasped_position = GP_SOUTH_EAST

\* C17: wherever on the screen the popup menu is opened, its window does
\* not extend past an edge of the screen: 0 <= menu_x,
\* menu_x + menu_width <= root_width, 0 <= menu_y and
\* menu_y + menu_height <= root_height.
C17_PopupStaysOnScreen ==
    popup_menu.mapped =>
        /\ 0 <= popup_menu.x
        /\ popup_menu.x + PopupWidth <= RootWidth
        /\ 0 <= popup_menu.y
        /\ popup_menu.y + PopupHeight(popup_menu) <= RootHeight

\* the MotionNotify events for the window w
MotionsOf(q, w) == {i \in 1..Len(q) : q[i].type = "MotionNotify" /\ q[i].window = w}

\* the last event of the queue that is a MotionNotify for the window of the
\* queue's first event
LastPendingMotion ==
    LET idx == MotionsOf(queue, Head(queue).window)
    IN  queue[CHOOSE i \in idx : \A j \in idx : j <= i]

\* the events behind the first that are not MotionNotify events for its
\* window, in the order they have in the queue
OtherPending ==
    LET w == Head(queue).window
        other(ev) == ~(ev.type = "MotionNotify" /\ ev.window = w)
    IN  SelectSeq(Tail(queue), other)

\* C18: when a MotionNotify is dispatched, the event processed is the last
\* MotionNotify for the same window that is pending at that moment;
\* afterwards no MotionNotify for that window is queued, and the pending
\* events of other types or for other windows are queued in the order they
\* had.
C18_LastPendingMotionIsProcessed ==
    [][(Dispatch /\ Head(queue).type = "MotionNotify") =>
         /\ process_motion_notify(LastPendingMotion.window, LastPendingMotion.x,
                                  LastPendingMotion.y, LastPendingMotion.button1)
         /\ MotionsOf(queue', Head(queue).window) = {}
         /\ queue' = OtherPending]_vars

\* a dispatch has skipped a MotionNotify for the root window and processed
\* a later one, the one over the second item of the popup menu, and an
\* event of another kind is still queued
C18_Witness ==
    /\ last.op = "MotionNotify" /\ last.w = Root
    /\ drained >= 1
    /\ popup_menu.mapped /\ popup_menu.selected_item = 1
    /\ queue # <<>>

\* the item under the point of the release at the head of the queue
ReleasedItem == detect_selected_popup_item(popup_menu, Head(queue).x, Head(queue).y)

\* the release at the head of the queue is dispatched over an item of the
\* open popup menu
ReleaseOverOpenPopup ==
    /\ Dispatch
    /\ Head(queue).type = "ButtonRelease"
    /\ search_frame(Head(queue).window) = NULL
    /\ popup_menu.mapped
    /\ ReleasedItem >= 0

\* the requests of the handler that launch a command
Commands(e) == {i \in 1..Len(e.reqs) : e.reqs[i][1] = "execute"}

\* C19: a release over the open popup menu that selects an exit item sets
\* running to False, and from then on no event is processed, whatever is
\* pending, and the main loop ends; a release that selects an exec item
\* leaves running True and launches exactly one command, that item's.
C19_ExitEndsLoopExecLaunchesOne ==
    /\ [][ReleaseOverOpenPopup =>
            IF popup_menu.items[ReleasedItem + 1] = "MENU_ITEM_TYPE_EXIT"
            THEN ~running' /\ Commands(last') = {}
            ELSE /\ running'
                 /\ \E i \in Commands(last') :
                       /\ Commands(last') = {i}
                       /\ last'.reqs[i] = <<"execute", ReleasedItem>>]_vars
    /\ [][~running =>
            /\ last' = last
            /\ UNCHANGED <<running, heap, allocated, all_frames, frames_z_order,
                           graspvars, popup_menu, xframe, xclient>>
            /\ Len(queue') >= Len(queue)
            /\ SubSeq(queue', 1, Len(queue)) = queue]_vars
    /\ (~running ~> pc = "exited")

\* the exit item was selected and the main loop has ended with events
\* still pending
C19_Witness ==
    /\ pc = "exited"
    /\ ~running
    /\ last.op = "ButtonRelease"
    /\ ~popup_menu.mapped
    /\ queue # <<>>

\* x lies in the rectangle draw_window_list draws entry i in
InListEntry(i, x) == list_entry_x(i) <= x /\ x < list_entry_x(i) + list_item_width

\* C20: a button-1 press on the taskbar at an x inside the rectangle in
\* which the window list shows all_frames[i] maps, raises and focuses
\* exactly the Frame all_frames[i], for every number of frames.
C20_TaskbarPressFocusesEntry ==
    [][\A x \in ListXs : \A i \in 0..(Len(all_frames) - 1) :
         (/\ clock_x = ClockX
          /\ InListEntry(i, x)
          /\ process_button_press(Button1, TaskbarWindow, x, 2)) =>
            LET frame == all_frames[i + 1]
            IN  /\ pc' = "loop"
                /\ last'.reqs = << <<"XMapWindow", heap[frame].window>>,
                                   <<"XRaiseWindow", heap[frame].window>>,
                                   <<"XSetInputFocus", heap[frame].child>> >>
                /\ xframe'[heap[frame].window].mapped
                /\ frames_z_order'[1] = frame]_vars

\* the tool's output ends before the size field or before the payload the
\* size field announces is complete
Truncated ==
    \/ Len(config.input) < SizeofSizeT
    \/ Len(config.input) <
         SizeofSizeT + SizeValue(SubSeq(config.input, 1, SizeofSizeT))

\* C21: when the config tool's output ends before the size field or before
\* the announced number of payload bytes, read_config terminates and
\* returns False, and main exits with nonzero status without entering the
\* run loop.
C21_TruncatedOutputIsFatal ==
    Truncated ~> (config.pc = "failed" /\ config.exit # 0 /\ pc = "exited")

\* C22: read_config consumes exactly sizeof(size_t) bytes as the size field
\* and then exactly that many payload bytes, and the loaded blob equals
\* those payload bytes in stream order.
C22_ReadConfigConsumesSizeThenPayload ==
    config.pc \in {"pclose", "loaded"} =>
        /\ config.size = SubSeq(config.input, 1, SizeofSizeT)
        /\ config.pos = SizeofSizeT + SizeValue(config.size)
        /\ config.blob = SubSeq(config.input, SizeofSizeT + 1, config.pos)

\* C23: an asynchronous X protocol error never terminates the window
\* manager: for every error, and whether or not the error log file can be
\* opened, error_handler returns to Xlib and the run loop continues with
\* the registry unchanged.
C23_XErrorNeverTerminates ==
    [][\A opens \in BOOLEAN :
         error_handler(opens) =>
            /\ pc' = pc
            /\ UNCHANGED <<running, heap, allocated, all_frames, frames_z_order>>]_vars

\* C24: execute returns to the event loop as soon as the intermediate child
\* has exited, however long the launched command runs: once the window
\* manager waits it comes back to the loop although no command ever needs
\* to end, it comes back by reaping the intermediate child and nothing
\* else, and outside execute no intermediate child is left, zombie or not.
C24_ExecuteWaitsOnlyForTheChild ==
    /\ (pc = "waitpid" ~> pc = "loop")
    /\ [][pc = "waitpid" /\ pc' # pc =>
            /\ pc' = "loop"
            /\ procs.child = "zombie"
            /\ procs' = [procs EXCEPT !.child = "none"]]_vars
    /\ [](pc \notin {"do_fork", "waitpid"} => procs.child = "none")

\* execute has returned and the command it launched still runs
C24_Witness ==
    /\ pc = "loop"
    /\ procs.launched = 1
    /\ procs.commands = 1
    /\ procs.child = "none"

\* no Frame is held twice
NoDuplicates(a) == \A i, j \in 1..Len(a) : a[i] = a[j] => i = j

\* C25: after any sequence of insert_frame, free_frame, unmap_frame and
\* focus operations neither all_frames nor frames_z_order holds the same
\* Frame twice, and remove_from_array of a Frame that is not in the array
\* leaves the array's contents and size unchanged.
C25_NoDuplicatesAndAbsentRemovalIsNoOp ==
    /\ NoDuplicates(all_frames)
    /\ NoDuplicates(frames_z_order)
    /\ \A f \in Slots :
         /\ f \notin Range(all_frames) => remove_from_array(all_frames, f) = {all_frames}
         /\ f \notin Range(frames_z_order) =>
                remove_from_array(frames_z_order, f) = {frames_z_order}

\* C26: for every Frame, after its creation and after any sequence of
\* drag-resize motion events and configure-requests for its child, frame
\* width = child width + compute_frame_width, frame height = child height +
\* compute_frame_height, and the child's offset inside the frame stays
\* (frame_size, 2*frame_size + title_height).
C26_FrameSizeFollowsChild ==
    \A i \in 1..Len(all_frames) :
        LET frame == all_frames[i]
            f == heap[frame].window
            w == heap[frame].child
        IN  (/\ frame \in allocated
             /\ w \in Clients /\ xclient[w].state = "alive"
             /\ FrameExists(xframe, f) /\ xclient[w].parent = f) =>
                /\ xframe[f].width = xclient[w].width + compute_frame_width
                /\ xframe[f].height = xclient[w].height + compute_frame_height
                /\ xclient[w].x = FrameSize
                /\ xclient[w].y = 2 * FrameSize + TitleHeight

\* the array z without its entries equal to f
Without(z, f) ==
    LET F[i \in 0..Len(z)] ==
            IF i = 0 THEN <<>>
            ELSE IF z[i] = f THEN F[i - 1] ELSE Append(F[i - 1], z[i])
    IN  F[Len(z)]

\* a stands before b in z
Before(z, a, b) == \E i, j \in 1..Len(z) : i < j /\ z[i] = a /\ z[j] = b

\* C27: frames_z_order is always ordered by recency of focus, most recently
\* focused first: a step puts at most one Frame at the head and leaves the
\* other Frames in the order they had; and when a destroy-notify removes a
\* Frame, input focus is given to the child of the first Frame left in
\* frames_z_order, and to no frame when frames_z_order is empty.
C27_ZOrderIsFocusOrder ==
    /\ [][/\ \A i \in 2..Len(frames_z_order') :
                frames_z_order'[i] \in Range(frames_z_order)
          /\ \A a, b \in Range(frames_z_order) \cap Range(frames_z_order') :
                (a # b /\ frames_z_order'[1] \notin {a, b}) =>
                    (Before(frames_z_order, a, b) <=> Before(frames_z_order', a, b))]_vars
    /\ [][\A w \in Clients :
            (process_destroy_notify(w) /\ search_frame_of_child(w) # NULL) =>
                LET frame == search_frame_of_child(w)
                    rest == Without(frames_z_order, frame)
                IN  /\ frames_z_order' = rest
                    /\ last'.reqs =
                         << <<"free", frame>>, <<"XDestroyWindow", heap[frame].window>> >>
                         \o (IF rest = <<>> THEN <<>>
                             ELSE << <<"XSetInputFocus", heap[rest[1]].child>> >>)]_vars

\* C28: a button-1 press on a frame window whose hover status is a control
\* icon (minimize, maximize or close) never enters the Grasped state:
\* grasped_position is unchanged by that press.
C28_PressOnControlIconDoesNotGrasp ==
    [][\A w \in FrameWindows, n \in IconPoints :
         LET pt == FramePoint(n, xframe[w].width, xframe[w].height)
             frame == search_frame(w)
         IN  (/\ frame # NULL
              /\ heap[frame].status \in {FOCUS_MINIMIZE, FOCUS_MAXIMIZE, FOCUS_CLOSE}
              /\ process_button_press(Button1, w, pt[1], pt[2])) =>
                 grasped_position' = grasped_position]_vars

\* C29: grasped_position leaves GP_NONE only through a button-1 press on a
\* frame window, and once a grasp is active it ends only through the
\* release of button 1: the release of any other button, on any window,
\* leaves the grasp state unchanged.
C29_GraspFromPressToReleaseOfButton1 ==
    /\ [][(grasped_position = GP_NONE /\ grasped_position' # GP_NONE) =>
             /\ Button1 \notin buttons /\ Button1 \in buttons'
             /\ last'.op = "grasp_frame" /\ last'.w \in FrameWindows]_vars
    /\ [][(grasped_position # GP_NONE /\ grasped_position' = GP_NONE) =>
             (Button1 \in buttons /\ Button1 \notin buttons')]_vars
    /\ [][(Button3 \in buttons /\ Button3 \notin buttons') => UNCHANGED graspvars]_vars

\* C30: for every Frame in every reachable state, width_inc >= 1 and
\* height_inc >= 1, whatever size hints the client reports, so that
\* floor_int never divides by zero during a resize.
C30_IncrementsArePositive ==
    /\ \A frame \in allocated :
          heap[frame].width_inc >= 1 /\ heap[frame].height_inc >= 1
    /\ pc # "crashed"

\* C31: whenever grasped_position is not GP_NONE, grasped_frame is the frame
\* window of a Frame that is in the registry: removing the grasped Frame (a
\* destroy-notify for its child during a drag) leaves no grasp of a removed
\* Frame.
C31_GraspRefersToRegisteredFrame ==
    grasped_position # GP_NONE =>
        \E i \in 1..Len(all_frames) :
            /\ all_frames[i] \in allocated
            /\ heap[all_frames[i]].window = grasped_frame

\* C32: a menu item is acted on (a command executed or running set to
\* False) only by the release of button 1 that closes the open popup menu;
\* a button release in any other situation executes nothing and leaves
\* running unchanged.
C32_OnlyButton1ReleaseOverOpenPopupActs ==
    [][ButtonRelease(MenuSpots) /\ (~NoCommand(last') \/ running' # running)
          => popup_menu.mapped /\ buttons \ buttons' = {Button1}]_vars

\* C33: in focus_window_of_taskbar, for every click x with
\* taskbar_height <= x <= clock_x and every number of frames nframes >= 1,
\* the divisor clock_x / nframes is nonzero and the index
\* x / (clock_x / nframes) lies in [0, nframes): all_frames.items is never
\* read out of bounds.
C33_TaskbarIndexInBounds ==
    [][\A x \in ClockXs :
         (/\ TaskbarHeight <= x /\ x <= clock_x
          /\ Len(all_frames) >= 1
          /\ process_button_press(Button1, TaskbarWindow, x, 2)) =>
            /\ CDiv(clock_x, Len(all_frames)) # 0
            /\ taskbar_frames(x) \subseteq Range(all_frames)
            /\ pc' = "loop"]_vars

\* the queue holds, from its head on, motion events of a drag on the frame
\* of its first event, then the release of button 1 as entry i, then a
\* motion event for the same frame with no button down
DragReleaseMotion(i) ==
    /\ i \in 2..Len(queue)
    /\ queue[i].type = "ButtonRelease"
    /\ \A j \in 1..(i - 1) :
          /\ queue[j].type = "MotionNotify"
          /\ queue[j].window = Head(queue).window
          /\ queue[j].button1
    /\ \E k \in (i + 1)..Len(queue) :
          /\ queue[k].type = "MotionNotify"
          /\ queue[k].window = Head(queue).window
          /\ ~queue[k].button1

\* C34: when the queue holds motion events of a drag on frame F, then the
\* button-1 release, then motion events on F without the button, the last
\* drag motion event before the release is applied to F's geometry before
\* the grasp ends: coalescing never skips a button-down motion event in
\* favour of a motion event that follows the release.
C34_LastDragMotionIsApplied ==
    [][\A i \in 1..MaxQueue :
         (/\ Dispatch
          /\ grasped_position # GP_NONE
          /\ grasped_frame = Head(queue).window
          /\ DragReleaseMotion(i)) =>
            /\ process_motion_notify(queue[i - 1].window, queue[i - 1].x,
                                     queue[i - 1].y, TRUE)
            /\ Head(queue').type = "ButtonRelease"]_vars

\* the geometry process_motion_notify asks for when the pointer is at
\* (x, y) of the frame window w during a resize
RequestedGeometry(w, x, y) ==
    LET fa == xframe[w]
        new_x == fa.x + BorderSize + x - grasped_x - BorderSize
        new_y == fa.y + BorderSize + y - grasped_y - BorderSize
    IN  resize_request(grasped_position, search_frame(w), fa, x, y, new_x, new_y)

\* C35: no sequence of resize motion events requests a frame or child size
\* with width <= 0 or height <= 0: the sizes passed to the move/resize
\* requests for the frame and to resize_child for the child are at least 1
\* in each dimension.
C35_ResizeRequestsPositiveSizes ==
    [][\A w \in FrameWindows : \A d \in ShrinkSteps :
         (/\ Button1 \in buttons
          /\ search_frame(w) # NULL
          /\ grasped_position \notin {GP_NONE, GP_TITLE_BAR}
          /\ ~resize_divides_by_zero(grasped_position, search_frame(w))
          /\ process_motion_notify(w, grasped_x + d[1], grasped_y + d[2], TRUE)) =>
            LET r == RequestedGeometry(w, grasped_x + d[1], grasped_y + d[2])
            IN  /\ r.width >= 1
                /\ r.height >= 1
                /\ r.width - compute_frame_width >= 1
                /\ r.height - compute_frame_height >= 1]_vars

\* button 1 goes down on the frame window w while its Frame's hover status
\* is minimize
MinimizePress(w) ==
    /\ search_frame(w) # NULL
    /\ heap[search_frame(w)].status = FOCUS_MINIMIZE
    /\ ButtonPress({Button1}, {w}, MinimizePoints, MinimizeXs)

\* the Frame is registered and its frame window is not mapped
IsMinimized(frame) ==
    /\ frame \in allocated
    /\ frame \in Range(all_frames)
    /\ ~xframe[heap[frame].window].mapped

\* the frame window is mapped and the Frame is in z exactly once, at the head
RestoredAtHead(xf, z, frame) ==
    /\ xf[heap[frame].window].mapped
    /\ Len(z) >= 1
    /\ z[1] = frame
    /\ Cardinality({i \in 1..Len(z) : z[i] = frame}) = 1

\* C36: after a frame is minimized (a button-1 press while its hover status
\* is minimize) it is unmapped, absent from frames_z_order and still in
\* all_frames, and focus_top_frame never chooses it while it is minimized;
\* a later taskbar click on its entry or a map-request for its child maps it
\* again and puts it back into frames_z_order exactly once, at the head.
C36_MinimizeAndRestore ==
    /\ [][\A w \in FrameWindows :
            MinimizePress(w) =>
                /\ IsMinimized(search_frame(w))'
                /\ search_frame(w) \notin Range(frames_z_order')]_vars
    /\ [](\A i \in 1..Len(frames_z_order) : ~IsMinimized(frames_z_order[i]))
    /\ [][\A w \in Clients :
            (/\ search_frame_of_child(w) # NULL
             /\ IsMinimized(search_frame_of_child(w))
             /\ MapRequest({w}, PlainHints)) =>
                RestoredAtHead(xframe', frames_z_order', search_frame_of_child(w))]_vars
    /\ [][\A x \in MinimizeXs : \A i \in 0..(Len(all_frames) - 1) :
            (/\ clock_x = ClockX
             /\ InListEntry(i, x)
             /\ IsMinimized(all_frames[i + 1])
             /\ process_button_press(Button1, TaskbarWindow, x, 2)) =>
                RestoredAtHead(xframe', frames_z_order', all_frames[i + 1])]_vars

\* the 8 resize zones
ResizeZones == WestZones \cup EastZones \cup NorthZones \cup SouthZones

\* C37: the control-icon hover regions are disjoint from the resize border
\* band: for every frame size and every point that detect_frame_position
\* classifies as one of the 8 resize zones, detect_frame_status returns
\* FOCUS_NONE, so a button-1 press there (after a hover at the same point)
\* starts a resize grasp and never closes or minimizes the frame.
C37_IconsDisjointFromResizeBand ==
    /\ [](\A w \in FrameWindows :
            xframe[w].exists =>
              \A x \in 0..(xframe[w].width - 1), y \in 0..(xframe[w].height - 1) :
                detect_frame_position(xframe[w].width, xframe[w].height, x, y) \in ResizeZones
                    => detect_frame_status(xframe[w].width, x, y) = FOCUS_NONE)
    /\ [][\A w \in FrameWindows :
            \A x \in 0..(xframe[w].width - 1), y \in HoverRows :
              (/\ search_frame(w) # NULL
               /\ heap[search_frame(w)].status = detect_frame_status(xframe[w].width, x, y)
               /\ detect_frame_position(xframe[w].width, xframe[w].height, x, y) \in ResizeZones
               /\ process_button_press(Button1, w, x, y)) =>
                 /\ grasped_position' \in ResizeZones
                 /\ xframe'[w].mapped
                 /\ xclient' = xclient]_vars

\* C38: in every reachable state every entry of frames_z_order is a Frame
\* that is also in all_frames and has not been freed: no ordering holds a
\* pointer to a destroyed Frame.
C38_ZOrderHoldsRegisteredFrames ==
    \A i \in 1..Len(frames_z_order) :
        /\ frames_z_order[i] \in allocated
        /\ \E j \in 1..Len(all_frames) : all_frames[j] = frames_z_order[i]

\* C39: in the earlier version, the assertions assert(frame != NULL) of
\* process_button_press, change_close_icon and process_motion_notify hold
\* for every event sequence, also for the button presses and motions of a
\* frame window that are processed after close_frame or a DestroyNotify
\* removed its Frame.
C39_OldAssertionsHold == old.pc # "assert"

\* C40: for every buffer of n >= 1 bytes, the bytes write_file(buf, n) of
\* __fawm_config__ puts in the pipe, read by read_file(dest, stream, n) of
\* fawm, make both loops end, read_file return True and dest[0..n) equal
\* buf[0..n), and none of the bytes written stays unread.
C40_RoundTripThroughThePipe ==
    (pipe.pc = "run") ~>
        /\ pipe.wret = "0"
        /\ pipe.rret = "True"
        /\ pipe.dest = pipe.buf
        /\ pipe.pos = Len(pipe.stream)

\* a buffer of MaxBuf bytes has gone through: each loop took MaxBuf turns
C40_Witness ==
    /\ pipe.pc = "run"
    /\ Len(pipe.buf) = MaxBuf
    /\ pipe.wret = "0"
    /\ pipe.rret = "True"
    /\ pipe.rbytes = MaxBuf
    /\ Len(pipe.stream) > MaxBuf

====
